---- MODULE Spec2Model ----
(***************************************************************************)
(* MemoVault: the session relay (src/server/socket.ts, with verifyToken    *)
(* of src/server/auth.ts) and the share-link endpoints                     *)
(* (docs/zero-trust-sharing-mechanism.md), as state machines.              *)
(*                                                                         *)
(* Relay: every connection runs handleConnection, which is suspended once  *)
(* at `await verifyToken(token)`; the socket's events (message, close) and *)
(* the heartbeat timer interleave freely with that suspension.  Process    *)
(* shutdown (SIGTERM/SIGINT) is outside the model.                         *)
(***************************************************************************)
EXTENDS Integers, Sequences, FiniteSets, TLC

\* ------------------------------------------------------------------ bounds
\* Connections accepted over the relay's lifetime.
NumConns == 3
\* Binary frames the model lets the devices send in total.
MaxMsgs == 2
\* WS_CONFIG.maxRoomSize is 100 in the source; the model scales it down so
\* that a full room is reachable with NumConns connections.
maxRoomSize == 2

Conns == 1..NumConns
Users == {"A", "B"}
\* url.searchParams.get(...) of an absent parameter
Null == "null"

\* ------------------------------------------------------------------ tokens
\* A token is what jwtVerify makes of it: absent, invalid (bad signature,
\* wrong issuer/audience, expired) or valid with an embedded userId.
NoToken == [state |-> "absent", userId |-> Null]
InvalidToken(u) == [state |-> "invalid", userId |-> u]
ValidToken(u) == [state |-> "valid", userId |-> u]

\* Mutant: the payload is decoded without checking signature and expiry.
verifyToken_Unverified(token) ==
  [ok |-> token.state # "absent", userId |-> token.userId]

\* verifyToken: resolves with the payload of a valid token, throws otherwise.
verifyToken(token) ==
  IF token.state = "valid"
    THEN [ok |-> TRUE, userId |-> token.userId]
    ELSE [ok |-> FALSE, userId |-> Null]

\* ------------------------------------------------------------------- rooms
DefaultRoom(userId) == IF userId = "A" THEN "user-A" ELSE "user-B"
RoomNames == {DefaultRoom(u) : u \in Users}

\* The connection requests of the model, one or more of each kind the relay
\* tells apart: a missing token, a missing userId, a token that does not
\* verify, a token of another principal, a principal asking for its default
\* room, and a principal naming the default room of another.
Request(token, userId, room) ==
  [token |-> token, userId |-> userId, room |-> room]
InRequests ==
  {Request(NoToken, "A", Null),
   Request(ValidToken("A"), Null, Null),
   Request(InvalidToken("A"), "A", Null),
   Request(ValidToken("B"), "A", Null),
   Request(ValidToken("A"), "A", Null),
   Request(ValidToken("B"), "B", Null),
   Request(ValidToken("B"), "B", "user-A")}

\* const roomName = url.searchParams.get('room') || `user-${userId}`
RoomNameOf(r) == IF r.room = Null THEN DefaultRoom(r.userId) ELSE r.room

\* ---------------------------------------------------------- CRDT document
\* Y.Doc is modelled as the set of operations it has integrated; an update
\* is a byte string <<n, op_1 .. op_n, 0>> (n structs in increasing order,
\* then an empty delete set), so the empty document encodes as <<0, 0>>.
Ops == {1, 2}

RECURSIVE SortedSeq(_)
SortedSeq(S) ==
  IF S = {} THEN <<>>
  ELSE LET m == CHOOSE x \in S : \A y \in S : x <= y
       IN <<m>> \o SortedSeq(S \ {m})

\* Y.encodeStateAsUpdate(doc)
encodeStateAsUpdate(doc) == <<Cardinality(doc)>> \o SortedSeq(doc) \o <<0>>

\* Whether Y.applyUpdate decodes the bytes without throwing.
IsUpdate(bytes) ==
  /\ Len(bytes) >= 2
  /\ bytes[1] = Len(bytes) - 2
  /\ bytes[Len(bytes)] = 0
  /\ \A i \in 2..(Len(bytes) - 1) : bytes[i] \in Ops
  /\ \A i \in 2..(Len(bytes) - 2) : bytes[i] < bytes[i + 1]

UpdateOps(bytes) == {bytes[i] : i \in 2..(Len(bytes) - 1)}

\* Y.applyUpdate(doc, update), for an update that decodes
applyUpdate(doc, update) == doc \cup UpdateOps(update)

\* Frames a device may send: empty, not an update, and two updates.
InFrames == {<<>>, <<7>>, <<1, 1, 0>>, <<1, 2, 0>>}

\* ------------------------------------------------------- frames to devices
\* JSON control frame of sendMessage (the timestamp is left out)
ControlFrame(type, code, message, roomName) ==
  [type |-> type, code |-> code, message |-> message,
   roomName |-> roomName, data |-> <<>>]
\* A binary frame handed to ws.send
BinaryFrame(data) ==
  [type |-> "BINARY", code |-> "", message |-> "", roomName |-> "", data |-> data]

ConnectedFrame(roomName) == ControlFrame("CONNECTED", "", "", roomName)
ErrorFrame(code, message) == ControlFrame("ERROR", code, message, "")

\* --------------------------------------------------------------- variables
VARIABLES
  pc,         \* per connection: "new", "verifying", "joined", "rejected"
  req,        \* per connection: the URL parameters it connected with
  readyState, \* per connection: ws.readyState ("NONE" before it connects)
  wsAttr,     \* per connection: authenticatedWs.userId / .roomName
  sent,       \* per connection: the frames the relay handed to ws.send
  closeCode,  \* per connection: the code of the relay's ws.close (0: none)
  dead,       \* per connection: the peer no longer answers (transport still up)
  rooms,      \* this.rooms: room name -> Room
  applied,    \* history: room name -> frames applied since the room was created
  msgCount    \* frames sent by devices so far (bounds the model)

relayVars ==
  <<pc, req, readyState, wsAttr, sent, closeCode, dead, rooms,
    applied, msgCount>>

NoRoom ==
  [exists |-> FALSE, name |-> Null, userId |-> Null, doc |-> {}, clients |-> {}]
NoReq == Request(NoToken, Null, Null)
NoAttr == [userId |-> Null, roomName |-> Null]

RelayInit ==
  /\ pc = [c \in Conns |-> "new"]
  /\ req = [c \in Conns |-> NoReq]
  /\ readyState = [c \in Conns |-> "NONE"]
  /\ wsAttr = [c \in Conns |-> NoAttr]
  /\ sent = [c \in Conns |-> <<>>]
  /\ closeCode = [c \in Conns |-> 0]
  /\ dead = [c \in Conns |-> FALSE]
  /\ rooms = [n \in RoomNames |-> NoRoom]
  /\ applied = [n \in RoomNames |-> {}]
  /\ msgCount = 0

\* ------------------------------------------------------------ send / close
\* ws.send(frame) for connection c, on the map s of sent frames.
wsSend(s, c, frame) == [s EXCEPT ![c] = Append(@, frame)]

\* sendMessage(ws, type, payload)
sendMessage(s, c, frame) == wsSend(s, c, frame)

\* sendError(ws, code, message)
sendError(s, c, code, message) == sendMessage(s, c, ErrorFrame(code, message))

\* ws.close(code, reason): an open socket starts its closing handshake.
wsClose(rs, c) == [rs EXCEPT ![c] = IF @ = "OPEN" THEN "CLOSING" ELSE @]

\* The three steps every rejection of handleConnection makes.
Reject(c, code, message, wsCode) ==
  /\ sent' = sendError(sent, c, code, message)
  /\ closeCode' = [closeCode EXCEPT ![c] = wsCode]
  /\ readyState' = wsClose(readyState, c)
  /\ pc' = [pc EXCEPT ![c] = "rejected"]

\* ------------------------------------------------------- room operations
\* createRoom(name, userId): a fresh Y.Doc, no clients, stored in this.rooms
createRoom(rs, name, userId) ==
  [rs EXCEPT ![name] =
     [exists |-> TRUE, name |-> name, userId |-> userId, doc |-> {},
      clients |-> {}]]

\* cleanupRoom(roomName): destroy the document, delete the map entry
cleanupRoom(rs, roomName) ==
  IF rs[roomName].exists THEN [rs EXCEPT ![roomName] = NoRoom] ELSE rs

\* broadcast(room, data, excludeWs): to every other client that is OPEN
broadcast(s, room, data, excludeWs) ==
  [c \in Conns |->
     IF c \in room.clients /\ c # excludeWs /\ readyState[c] = "OPEN"
       THEN Append(s[c], BinaryFrame(data))
       ELSE s[c]]

\* Mutant: no snapshot for a document without operations.
sendInitialState_SkipsEmpty(s, c, room) ==
  IF room.doc # {}
    THEN wsSend(s, c, BinaryFrame(encodeStateAsUpdate(room.doc)))
    ELSE s

\* sendInitialState(ws, room): the encoded document, when it is not empty
sendInitialState(s, c, room) ==
  LET state == encodeStateAsUpdate(room.doc)
  IN IF Len(state) > 0 THEN wsSend(s, c, BinaryFrame(state)) ELSE s

\* The conditions of handleConnection
\* if (!token || !userId)
MissingCredentials(token, userId) == token.state = "absent" \/ userId = Null

\* Mutant: the token's principal is not compared with the claimed userId.
TokenUserIdMismatch_Omitted(decoded, userId) == FALSE
\* if (decoded.userId !== userId)
TokenUserIdMismatch(decoded, userId) == decoded.userId # userId

\* Mutant: an existing room is joined without the owner check.
RoomAccessDenied_Omitted(room, userId) == FALSE
\* if (room.userId !== userId)
RoomAccessDenied(room, userId) == room.userId # userId

\* Mutant: the ceiling is compared with > instead of >=.
RoomIsFull_OffByOne(room) == Cardinality(room.clients) > maxRoomSize
\* if (room.clients.size >= WS_CONFIG.maxRoomSize)
RoomIsFull(room) == Cardinality(room.clients) >= maxRoomSize

\* ------------------------------------------------------- handleConnection
\* A device connects: handleConnection runs up to `await verifyToken(token)`.
handleConnection(c, r) ==
  /\ pc[c] = "new"
  /\ \A d \in Conns : d < c => pc[d] # "new"
  /\ req' = [req EXCEPT ![c] = r]
  /\ IF MissingCredentials(r.token, r.userId)
       THEN /\ sent' = sendError(sent, c, "AUTH_ERROR",
                                 "Missing authentication credentials")
            /\ closeCode' = [closeCode EXCEPT ![c] = 1008]
            /\ readyState' = [readyState EXCEPT ![c] = "CLOSING"]
            /\ pc' = [pc EXCEPT ![c] = "rejected"]
       ELSE /\ readyState' = [readyState EXCEPT ![c] = "OPEN"]
            /\ pc' = [pc EXCEPT ![c] = "verifying"]
            /\ UNCHANGED <<sent, closeCode>>
  /\ UNCHANGED <<wsAttr, dead, rooms, applied, msgCount>>

\* verifyToken has settled: the rest of handleConnection, which runs without
\* a further suspension.
handleConnectionResume(c) ==
  /\ pc[c] = "verifying"
  /\ LET userId == req[c].userId
         roomName == RoomNameOf(req[c])
         decoded == verifyToken(req[c].token)
         found == rooms[roomName].exists
         rooms1 == IF found THEN rooms ELSE createRoom(rooms, roomName, userId)
         room == rooms1[roomName]
         joined == [rooms1 EXCEPT ![roomName].clients = @ \cup {c}]
     IN IF ~decoded.ok
          THEN /\ Reject(c, "AUTH_ERROR", "Invalid token", 1008)
               /\ UNCHANGED <<wsAttr, rooms, applied>>
        ELSE IF TokenUserIdMismatch(decoded, userId)
          THEN /\ Reject(c, "AUTH_ERROR", "Token userId mismatch", 1008)
               /\ UNCHANGED <<wsAttr, rooms, applied>>
        ELSE IF found /\ RoomAccessDenied(rooms[roomName], userId)
          THEN /\ Reject(c, "AUTH_ERROR", "Access denied to this room", 1003)
               /\ UNCHANGED <<wsAttr, rooms, applied>>
        ELSE IF RoomIsFull(room)
          THEN /\ Reject(c, "SYNC_ERROR", "Room is full", 1013)
               /\ rooms' = rooms1
               /\ applied' = IF found THEN applied
                             ELSE [applied EXCEPT ![roomName] = {}]
               /\ UNCHANGED wsAttr
        ELSE /\ wsAttr' = [wsAttr EXCEPT
                             ![c] = [userId |-> userId, roomName |-> roomName]]
             /\ rooms' = joined
             /\ applied' = IF found THEN applied
                           ELSE [applied EXCEPT ![roomName] = {}]
             /\ sent' = sendInitialState(
                          sendMessage(sent, c, ConnectedFrame(roomName)),
                          c, joined[roomName])
             /\ pc' = [pc EXCEPT ![c] = "joined"]
             /\ UNCHANGED <<closeCode, readyState>>
  /\ UNCHANGED <<req, dead, msgCount>>

\* ---------------------------------------------------------- handleMessage
\* The 'message' handler registered at the join, with the room it captured.
handleMessage(c, data) ==
  /\ pc[c] = "joined"
  /\ readyState[c] = "OPEN"
  /\ ~dead[c]
  /\ msgCount < MaxMsgs
  /\ msgCount' = msgCount + 1
  /\ LET roomName == wsAttr[c].roomName
         room == rooms[roomName]
     IN IF Len(data) = 0
          THEN UNCHANGED <<sent, rooms, applied>>
        ELSE IF ~IsUpdate(data)
          \* Y.applyUpdate throws; the catch block answers the sender
          THEN /\ sent' = sendError(sent, c, "SYNC_ERROR",
                                    "Failed to process update")
               /\ UNCHANGED <<rooms, applied>>
        ELSE /\ rooms' = [rooms EXCEPT
                            ![roomName].doc = applyUpdate(@, data)]
             /\ applied' = [applied EXCEPT ![roomName] = @ \cup {data}]
             /\ sent' = broadcast(sent, room, data, c)
  /\ UNCHANGED <<pc, req, readyState, wsAttr, closeCode, dead>>

\* ------------------------------------------------------------ handleClose
\* handleClose(ws, room): remove the client, clean up an emptied room
handleClose(rs, c, roomName) ==
  LET left == [rs EXCEPT ![roomName].clients = @ \ {c}]
  IN IF left[roomName].clients = {}
       THEN cleanupRoom(left, roomName)
       ELSE left

\* The peer closes the socket of c.  The 'close' handler exists only after
\* the join; a socket the relay itself closed has no handler at all, so the
\* end of its closing handshake changes nothing the relay holds.
socketClose(c) ==
  /\ readyState[c] = "OPEN"
  /\ ~dead[c]
  /\ readyState' = [readyState EXCEPT ![c] = "CLOSED"]
  /\ rooms' = IF pc[c] = "joined"
                THEN handleClose(rooms, c, wsAttr[c].roomName)
                ELSE rooms
  /\ UNCHANGED <<pc, req, wsAttr, sent, closeCode, dead, applied, msgCount>>

\* -------------------------------------------------------------- heartbeat
\* The interval callback of startHeartbeat: ws.ping() on every open socket.
\* The relay keeps no record of a ping and registers no 'pong' handler, so
\* the callback changes nothing the relay holds.
startHeartbeat ==
  UNCHANGED <<pc, req, readyState, wsAttr, sent, closeCode, dead, rooms,
              applied, msgCount>>

\* A joined device stops responding: it neither answers pings nor sends nor
\* closes the socket, while its transport stays up.
peerStops(c) ==
  /\ pc[c] = "joined"
  /\ readyState[c] = "OPEN"
  /\ ~dead[c]
  /\ dead' = [dead EXCEPT ![c] = TRUE]
  /\ UNCHANGED <<pc, req, readyState, wsAttr, sent, closeCode, rooms,
                 applied, msgCount>>

\* ============================================================ share links
\* The server endpoints of docs/zero-trust-sharing-mechanism.md.  A handler
\* is suspended at each `await` on the database, so the read of getShare,
\* its checks and its write are separate steps, and requests interleave.

\* Shares created over the server's lifetime (crypto.randomUUID never repeats).
NumShares == 1
\* Concurrent or successive GET /api/share/:id requests.
NumGets == 3
\* The server clock runs from 0 to MaxTime.
MaxTime == 2
\* The largest use limit a share is created with.
MaxLimit == 2
\* DELETE /api/share/:id requests.
NumRevokes == 1

ShareIds == 1..NumShares
Gets == 1..NumGets
Revokes == 1..NumRevokes
\* expiresAt / maxAccessCount left out of the request body (falsy in the checks)
Unset == 0

VARIABLES
  shares,     \* db.shares: id -> ShareMetadata
  gpc,        \* per GET request: "idle", "found", "updating", "done"
  gid,        \* per GET request: req.params.encryptedNoteId
  share,      \* per GET request: the object findOne returned
  res,        \* per GET request: the response (status 0: none yet)
  now,        \* Date.now() at the server
  revokes,    \* per DELETE request: position, req.user.id, id, object read, response
  creator,    \* per share: the principal whose client created it (history)
  wire,       \* every request a client has sent to the server (history)
  links       \* the share URLs clients hold

shareVars == <<shares, gpc, gid, share, res, now, revokes, creator, wire, links>>

\* The client's encryption layer and sign-in (declared here so that every
\* action can say what it leaves alone)
VARIABLES
  userDb,      \* userStore (IndexedDB): email -> UserRecord
  authSent,    \* every request registerUser / loginUser sent (history)
  authResult,  \* what the last registerUser / loginUser returned
  authCall,    \* the arguments of that call (history)
  masterKey,   \* keyManager.masterKey
  stored,      \* the envelope at the storage, with the encryptData call that made it
  outcome      \* the decryptData call last made on it: key, asString, result

authVars == <<userDb, authSent, authResult, authCall>>
cipherVars == <<masterKey, stored, outcome>>

\* The attachment pipeline (StreamEncryptionService) and its blob store
VARIABLES
  cryptoKey,   \* StreamEncryptionService.cryptoKey
  upload,      \* the encryptAndUploadFile call: position, locals, result
  s3           \* the blob store: the objects written, by s3Key

fileVars == <<cryptoKey, upload, s3>>

VARIABLES download
downloadVars == <<download>>

VARIABLES syncManager
reconnectVars == <<syncManager>>

VARIABLES localStorage, pathname, privateKey
sessionVars == <<localStorage, pathname, privateKey>>

VARIABLES syncDataStore, acknowledged, httpResponse, notes, clock, cloudSync
cloudVars == <<syncDataStore, acknowledged, httpResponse, notes, clock, cloudSync>>

VARIABLES merged
mergeVars == <<merged>>

VARIABLES autoSync
autoVars == <<autoSync>>

VARIABLES userSyncData, dbRequests, dbResponse
dbVars == <<userSyncData, dbRequests, dbResponse>>

VARIABLES queue
queueVars == <<queue>>

VARIABLES syncStatus, calls
statusVars == <<syncStatus, calls>>

VARIABLES engine, inits
engineVars == <<engine, inits>>

finalVars == <<dbVars, queueVars, statusVars, engineVars>>
laterVars == <<cloudVars, mergeVars, autoVars, finalVars>>
beforeFinal ==
  <<relayVars, shareVars, authVars, cipherVars, fileVars, downloadVars,
    reconnectVars, sessionVars, cloudVars, mergeVars, autoVars>>
outsideDb == <<beforeFinal, queueVars, statusVars, engineVars>>
outsideQueue == <<beforeFinal, dbVars, statusVars, engineVars>>
outsideStatus == <<beforeFinal, dbVars, queueVars, engineVars>>
outsideEngine == <<beforeFinal, dbVars, queueVars, statusVars>>
otherVars == <<downloadVars, reconnectVars, sessionVars, laterVars>>

outsideRelay == <<shareVars, authVars, cipherVars, fileVars, otherVars>>
outsideShare == <<relayVars, authVars, cipherVars, fileVars, otherVars>>
outsideAuth == <<relayVars, shareVars, cipherVars, fileVars, otherVars>>
outsideCipher == <<relayVars, shareVars, authVars, fileVars, otherVars>>
outsideFile == <<relayVars, shareVars, authVars, cipherVars, otherVars>>
outsideDownload ==
  <<relayVars, shareVars, authVars, cipherVars, upload, reconnectVars,
    sessionVars, laterVars>>
outsideReconnect ==
  <<relayVars, shareVars, authVars, cipherVars, fileVars, downloadVars,
    sessionVars, laterVars>>
outsideSession ==
  <<relayVars, shareVars, authVars, fileVars, downloadVars, laterVars>>
outsideAuto ==
  <<relayVars, shareVars, authVars, cipherVars, fileVars, downloadVars,
    reconnectVars, sessionVars, mergeVars, finalVars>>
outsideCloud ==
  <<relayVars, shareVars, authVars, cipherVars, fileVars, downloadVars,
    reconnectVars, sessionVars, autoVars, finalVars>>

NoShare ==
  [exists |-> FALSE, encryptedData |-> 0, createdAt |-> 0, expiresAt |-> Unset,
   accessCount |-> 0, maxAccessCount |-> Unset]
NoResponse == [status |-> 0, error |-> "", encryptedData |-> 0]
NoRevoke ==
  [pc |-> "idle", userId |-> Null, id |-> 1, share |-> NoShare,
   status |-> 0, error |-> ""]

ShareInit ==
  /\ shares = [i \in ShareIds |-> NoShare]
  /\ gpc = [g \in Gets |-> "idle"]
  /\ gid = [g \in Gets |-> 1]
  /\ share = [g \in Gets |-> NoShare]
  /\ res = [g \in Gets |-> NoResponse]
  /\ now = 0
  /\ revokes = [r \in Revokes |-> NoRevoke]
  /\ creator = [i \in ShareIds |-> Null]
  /\ wire = {}
  /\ links = {}

\* POST /api/share/create: store the metadata with accessCount 0.  The
\* ciphertext of share i is modelled by the number i.
createShare(i, expiresAt, maxAccessCount) ==
  /\ ~shares[i].exists
  /\ \A j \in ShareIds : j < i => shares[j].exists
  /\ shares' = [shares EXCEPT ![i] =
       [exists |-> TRUE, encryptedData |-> i, createdAt |-> now,
        expiresAt |-> expiresAt, accessCount |-> 0,
        maxAccessCount |-> maxAccessCount]]
  /\ UNCHANGED <<gpc, gid, share, res, now>>

\* db.shares.findOne({ encryptedNoteId }): null for an id that was never stored
findOne(db, encryptedNoteId) ==
  IF encryptedNoteId \in ShareIds THEN db[encryptedNoteId] ELSE NoShare

\* GET /api/share/:id, up to and including `await db.shares.findOne(...)`
getShareFind(g, i) ==
  /\ gpc[g] = "idle"
  /\ \A h \in Gets : h < g => gpc[h] # "idle"
  /\ gid' = [gid EXCEPT ![g] = i]
  /\ share' = [share EXCEPT ![g] = findOne(shares, i)]
  /\ gpc' = [gpc EXCEPT ![g] = "found"]
  /\ UNCHANGED <<shares, res, now>>

\* The checks of getShare on the object it read
ShareExpired_CreatedAt(sh, t) ==
  sh.expiresAt # Unset /\ sh.expiresAt < sh.createdAt
ShareExpired(sh, t) == sh.expiresAt # Unset /\ sh.expiresAt < t
ShareLimitReached(sh) ==
  sh.maxAccessCount # Unset /\ sh.accessCount >= sh.maxAccessCount

\* getShare from the return of findOne to `await db.shares.update(...)`
getShare(g) ==
  /\ gpc[g] = "found"
  /\ IF ~share[g].exists
       THEN /\ res' = [res EXCEPT ![g] =
                 [status |-> 404, error |-> "Share not found", encryptedData |-> 0]]
            /\ gpc' = [gpc EXCEPT ![g] = "done"]
            /\ UNCHANGED share
     ELSE IF ShareExpired(share[g], now)
       THEN /\ res' = [res EXCEPT ![g] =
                 [status |-> 410, error |-> "Share expired", encryptedData |-> 0]]
            /\ gpc' = [gpc EXCEPT ![g] = "done"]
            /\ UNCHANGED share
     ELSE IF ShareLimitReached(share[g])
       THEN /\ res' = [res EXCEPT ![g] =
                 [status |-> 410, error |-> "Share access limit reached",
                  encryptedData |-> 0]]
            /\ gpc' = [gpc EXCEPT ![g] = "done"]
            /\ UNCHANGED share
     ELSE /\ share' = [share EXCEPT ![g].accessCount = @ + 1]
          /\ gpc' = [gpc EXCEPT ![g] = "updating"]
          /\ UNCHANGED res
  /\ UNCHANGED <<shares, gid, now>>

\* db.shares.update({ encryptedNoteId }, share) takes effect and getShare
\* answers with the ciphertext.
getShareUpdate(g) ==
  /\ gpc[g] = "updating"
  /\ shares' = IF shares[gid[g]].exists
                 THEN [shares EXCEPT ![gid[g]] = share[g]]
                 ELSE shares
  /\ res' = [res EXCEPT ![g] =
       [status |-> 200, error |-> "", encryptedData |-> share[g].encryptedData]]
  /\ gpc' = [gpc EXCEPT ![g] = "done"]
  /\ UNCHANGED <<gid, share, now>>

\* The server clock advances.
tick ==
  /\ now < MaxTime
  /\ now' = now + 1
  /\ UNCHANGED <<shares, gpc, gid, share, res>>

\* ShareMetadata declares no createdBy and createShare stores none: the
\* property read in revokeShare yields undefined.
createdBy(sh) == Null

\* DELETE /api/share/:id by the authenticated principal userId, up to and
\* including `await db.shares.findOne(...)`
revokeShareFind(r, userId, i) ==
  /\ revokes[r].pc = "idle"
  /\ \A q \in Revokes : q < r => revokes[q].pc # "idle"
  /\ revokes' = [revokes EXCEPT ![r] =
       [pc |-> "found", userId |-> userId, id |-> i,
        share |-> findOne(shares, i), status |-> 0, error |-> ""]]
  /\ UNCHANGED <<shares, gpc, gid, share, res, now>>

\* revokeShare from the return of findOne: the permission check, then
\* deleteOne and the answer
revokeShare(r) ==
  /\ revokes[r].pc = "found"
  /\ IF ~revokes[r].share.exists \/ createdBy(revokes[r].share) # revokes[r].userId
       THEN /\ revokes' = [revokes EXCEPT ![r].pc = "done", ![r].status = 403,
                                          ![r].error = "Forbidden"]
            /\ UNCHANGED shares
       ELSE /\ shares' = [shares EXCEPT ![revokes[r].id] = NoShare]
            /\ revokes' = [revokes EXCEPT ![r].pc = "done", ![r].status = 200]
  /\ UNCHANGED <<gpc, gid, share, res, now>>

\* ------------------------------------------------------ share-link clients
\* A request as the server receives it: method, route, the :id parameter,
\* the authenticated principal and the JSON body's fields (0: not sent).
HttpRequest(method, route, param, user, encryptedData, iv, expiresAt, maxAccessCount) ==
  [method |-> method, route |-> route, param |-> param, user |-> user,
   encryptedData |-> encryptedData, iv |-> iv, expiresAt |-> expiresAt,
   maxAccessCount |-> maxAccessCount]

\* generateShareKey + exportShareKey: the fresh random key of the i-th link,
\* a value distinct from every id, ciphertext, IV, time and limit
exportShareKey(i) == 100 + i
ShareKeys == {exportShareKey(i) : i \in ShareIds}

\* encryptNoteForSharing: ciphertext and IV of the i-th note (AES-GCM output
\* reveals nothing of the key)
encryptNoteForSharing(i, shareKey) == [data |-> i, iv |-> i]

\* uploadSharedNote: the POST it sends
uploadSharedNote(encryptedData, expiresAt, maxAccessCount) ==
  HttpRequest("POST", "/api/share/create", 0, Null, encryptedData.data,
              encryptedData.iv, expiresAt, maxAccessCount)

\* `https://memovault.com/share/${encryptedNoteId}#${shareKey}`: the path
\* segments after /share and the hash with its leading '#'
HashSign == 35
generateShareURL(encryptedNoteId, shareKey) ==
  [origin |-> "https://memovault.com", pathname |-> <<encryptedNoteId>>,
   hash |-> <<HashSign, shareKey>>]

\* pathname.split('/').pop() and hash.slice(1)
parseShareURL_IdFromHash(url) ==
  [encryptedNoteId |-> IF Len(url.hash) > 1 THEN url.hash[2]
                       ELSE url.pathname[Len(url.pathname)],
   shareKey |-> IF url.hash = <<>> THEN <<>> ELSE Tail(url.hash)]
parseShareURL(url) ==
  [encryptedNoteId |-> url.pathname[Len(url.pathname)],
   shareKey |-> IF url.hash = <<>> THEN <<>> ELSE Tail(url.hash)]

\* fetchSharedNote: the GET it sends
fetchSharedNote(encryptedNoteId) ==
  HttpRequest("GET", "/api/share/", encryptedNoteId, Null, 0, 0, 0, 0)

\* The DELETE a signed-in client sends
revokeRequest(encryptedNoteId, userId) ==
  HttpRequest("DELETE", "/api/share/", encryptedNoteId, userId, 0, 0, 0, 0)

\* URLs typed by someone who holds no link: an id without a fragment
GuessedURLs ==
  {[origin |-> "https://memovault.com", pathname |-> <<i>>, hash |-> <<>>] :
     i \in ShareIds}

\* createShareLink by principal u, with the server's createShare
CreateShare ==
  /\ \E u \in Users, i \in ShareIds, e \in {Unset} \cup (1..MaxTime),
        m \in {Unset} \cup (1..MaxLimit) :
       LET shareKey == exportShareKey(i)
           request == uploadSharedNote(encryptNoteForSharing(i, shareKey), e, m)
       IN /\ createShare(i, request.expiresAt, request.maxAccessCount)
          /\ wire' = wire \cup {request}
          /\ links' = links \cup {generateShareURL(i, shareKey)}
          /\ creator' = [creator EXCEPT ![i] = u]
  /\ UNCHANGED revokes
  /\ UNCHANGED outsideShare
\* accessSharedNote up to the return of the server's findOne
GetShareFind ==
  /\ \E g \in Gets, url \in links \cup GuessedURLs :
       LET parsed == parseShareURL(url)
       IN /\ getShareFind(g, parsed.encryptedNoteId)
          /\ wire' = wire \cup {fetchSharedNote(parsed.encryptedNoteId)}
  /\ UNCHANGED <<revokes, creator, links>>
  /\ UNCHANGED outsideShare
GetShare ==
  /\ \E g \in Gets : getShare(g)
  /\ UNCHANGED <<revokes, creator, wire, links>>
  /\ UNCHANGED outsideShare
GetShareUpdate ==
  /\ \E g \in Gets : getShareUpdate(g)
  /\ UNCHANGED <<revokes, creator, wire, links>>
  /\ UNCHANGED outsideShare
RevokeShareFind ==
  /\ \E r \in Revokes, u \in Users, url \in links \cup GuessedURLs :
       LET parsed == parseShareURL(url)
       IN /\ revokeShareFind(r, u, parsed.encryptedNoteId)
          /\ wire' = wire \cup {revokeRequest(parsed.encryptedNoteId, u)}
  /\ UNCHANGED <<creator, links>>
  /\ UNCHANGED outsideShare
RevokeShare ==
  /\ \E r \in Revokes : revokeShare(r)
  /\ UNCHANGED <<creator, wire, links>>
  /\ UNCHANGED outsideShare
Tick ==
  /\ tick
  /\ UNCHANGED <<revokes, creator, wire, links>>
  /\ UNCHANGED outsideShare

ShareNext ==
  \/ CreateShare
  \/ GetShareFind
  \/ GetShare
  \/ GetShareUpdate
  \/ RevokeShareFind
  \/ RevokeShare
  \/ Tick

\* ================================================================= crypto
\* The encryption layer (src/lib/crypto.ts): key derivation, AES-GCM
\* envelopes and the text conversions around them.  Strings are sequences
\* of UTF-16 code units, buffers are sequences of bytes.

\* Longest plaintext, in code units or bytes.
MaxPlain == 1
\* Distinct values crypto.getRandomValues yields for an IV.
NumIvs == 2
\* Bytes storage may alter in a stored envelope.
MaxTampers == 1

\* 'A', the byte order mark U+FEFF, a lone high surrogate U+D800
CodeUnits == {65, 65279, 55296}
\* 'A' and 0xEF, which alone is no UTF-8
PlainBytes == {65, 239}
ReplacementChar == 65533

SeqsUpTo(S, n) == UNION {[1..k -> S] : k \in 0..n}
RECURSIVE Flatten(_)
Flatten(ss) == IF ss = <<>> THEN <<>> ELSE Head(ss) \o Flatten(Tail(ss))

\* UTF-8 of one scalar value of the basic plane
utf8(c) ==
  IF c < 128 THEN <<c>>
  ELSE IF c < 2048 THEN <<192 + (c \div 64), 128 + (c % 64)>>
  ELSE <<224 + (c \div 4096), 128 + ((c \div 64) % 64), 128 + (c % 64)>>

\* new TextEncoder().encode(s): an unpaired surrogate becomes U+FFFD (no
\* input here holds a surrogate pair)
TextEncoder_encode(str) ==
  Flatten([n \in 1..Len(str) |->
             utf8(IF str[n] \in 55296..57343 THEN ReplacementChar ELSE str[n])])

\* The UTF-8 decoder of new TextDecoder().decode(bytes): ill-formed input
\* becomes U+FFFD per maximal subpart (no input here holds a byte >= 0xF0)
RECURSIVE utf8Decode(_)
utf8Decode(b) ==
  IF b = <<>> THEN <<>>
  ELSE LET x == Head(b)
           lo == IF x = 224 THEN 160 ELSE 128
           hi == IF x = 237 THEN 159 ELSE 191
           rest(k) == utf8Decode(SubSeq(b, k + 1, Len(b)))
       IN IF x < 128 THEN <<x>> \o rest(1)
          ELSE IF x \in 194..223
            THEN IF Len(b) >= 2 /\ b[2] \in 128..191
                   THEN <<(x - 192) * 64 + (b[2] - 128)>> \o rest(2)
                   ELSE <<ReplacementChar>> \o rest(1)
          ELSE IF x \in 224..239
            THEN IF Len(b) >= 2 /\ b[2] \in lo..hi
                   THEN IF Len(b) >= 3 /\ b[3] \in 128..191
                          THEN <<(x - 224) * 4096 + (b[2] - 128) * 64 + (b[3] - 128)>>
                               \o rest(3)
                          ELSE <<ReplacementChar>> \o rest(2)
                   ELSE <<ReplacementChar>> \o rest(1)
          ELSE <<ReplacementChar>> \o rest(1)

\* decode() with the default ignoreBOM = false drops a leading U+FEFF
TextDecoder_decode(bytes) ==
  LET units == utf8Decode(bytes)
  IN IF units # <<>> /\ Head(units) = 65279 THEN Tail(units) ELSE units

\* b.toString(16).padStart(2, '0'), joined: two hex digits per byte
bufferToHex(buffer) ==
  Flatten([n \in 1..Len(buffer) |-> <<buffer[n] \div 16, buffer[n] % 16>>])
\* the bytes a hex string spells
hexToBuffer(hex) ==
  [n \in 1..(Len(hex) \div 2) |-> hex[2 * n - 1] * 16 + hex[2 * n]]

\* --------------------------------------------------------- key derivation
RECURSIVE SumSeq(_)
SumSeq(q) == IF q = <<>> THEN 0 ELSE Head(q) + SumSeq(Tail(q))

\* PBKDF2_CONFIG and ENCRYPTION_CONFIG
iterations == 600000
keyLength == 256
ivLength == 12
tagLength == 16

\* Passwords of 8 characters ("aaaaaaaa", "bbbbbbbb") and one of 1 ("a")
InPasswords == {[n \in 1..8 |-> 97], [n \in 1..8 |-> 98], <<97>>}
Passwords == {pw \in InPasswords : Len(pw) >= 8}
\* crypto.getRandomValues(new Uint8Array(32)), two outcomes
Salts == {[n \in 1..32 |-> 1], [n \in 1..32 |-> 2]}

\* PBKDF2 of crypto.subtle: a deterministic function of the password bytes,
\* the salt, the iteration count, the hash and the output length; here a
\* byte stream that separates the passwords and salts of the model
PBKDF2(passwordBytes, salt, iters, hash, length) ==
  LET seed == (SumSeq(passwordBytes) * 31 + SumSeq(salt) * 17 + iters
                 + (IF hash = "SHA-256" THEN 0 ELSE 1)) % 256
  IN [n \in 1..(length \div 8) |-> (seed + n) % 256]

\* A CryptoKey: the raw bytes behind the handle
CryptoKey(raw) == [algorithm |-> "AES-GCM", extractable |-> FALSE, raw |-> raw]

\* deriveKeyFromPassword(password, salt): deriveKey to AES-GCM, 256 bits
deriveKeyFromPassword(password, salt) ==
  CryptoKey(PBKDF2(TextEncoder_encode(password), salt, iterations, "SHA-256",
                   keyLength))

\* deriveAuthHash(password, salt): deriveBits, 256 bits, printed as hex
deriveAuthHash(password, salt) ==
  bufferToHex(PBKDF2(TextEncoder_encode(password), salt, iterations, "SHA-256",
                     256))

\* ---------------------------------------------------------------- AES-GCM
Ivs == {[n \in 1..ivLength |-> v] : v \in 1..NumIvs}

\* The counter-mode body: each byte shifted by a key- and IV-dependent pad
GcmPad(key, iv, n) == (key.raw[1 + ((n - 1) % Len(key.raw))] + iv[1] + n) % 256
GcmBody(key, iv, data) ==
  [n \in 1..Len(data) |-> (data[n] + GcmPad(key, iv, n)) % 256]
\* The 16-byte tag: a function of key, IV and body.  Every byte of it is
\* even, so that no flipping of low bits turns the tag of one body into the
\* tag of another (an unforgeable tag; bodies here are at most 6 bytes)
Nibbles(b) == <<2 * (b \div 16), 2 * (b % 16)>>
GcmTag(key, iv, body) ==
  LET full == Nibbles(key.raw[1]) \o Nibbles(iv[1])
                \o Flatten([j \in 1..Len(body) |-> Nibbles(body[j])])
  IN [n \in 1..tagLength |-> IF n <= Len(full) THEN full[n] ELSE 0]

\* crypto.subtle.encrypt({ name: 'AES-GCM', iv }, key, data)
subtleEncrypt(key, iv, data) ==
  LET body == GcmBody(key, iv, data) IN body \o GcmTag(key, iv, body)

\* crypto.subtle.decrypt: the plaintext when the tag verifies, else it throws
subtleDecrypt(key, iv, ciphertext) ==
  LET n == Len(ciphertext) - tagLength
      body == SubSeq(ciphertext, 1, n)
      data == [j \in 1..n |-> (body[j] + 256 - GcmPad(key, iv, j)) % 256]
  IN IF n >= 0 /\ ciphertext = subtleEncrypt(key, iv, data)
       THEN [ok |-> TRUE, data |-> data]
       ELSE [ok |-> FALSE, data |-> <<>>]

\* A plaintext argument: a string (code units) or an ArrayBuffer (bytes)
Str(units) == [type |-> "string", units |-> units]
Buf(bytes) == [type |-> "bytes", units |-> bytes]
Plaintexts ==
  {Str(u) : u \in SeqsUpTo(CodeUnits, MaxPlain)}
    \cup {Buf(b) : b \in SeqsUpTo(PlainBytes, MaxPlain)}

\* encryptData(data, key), with the IV the random source gave
encryptData(data, key, iv) ==
  LET dataBuffer == IF data.type = "string" THEN TextEncoder_encode(data.units)
                    ELSE data.units
  IN [ciphertext |-> subtleEncrypt(key, iv, dataBuffer), iv |-> iv]

\* decryptData(encryptedData, key, asString): what it returns, or the
\* Error('Failed to decrypt data') it throws
Returned(value) == [status |-> "returned", value |-> value, message |-> ""]
Thrown(message) == [status |-> "thrown", value |-> Str(<<>>), message |-> message]
decryptData_Unverified(encryptedData, key, asString) ==
  LET n == Len(encryptedData.ciphertext) - tagLength
      data == [j \in 1..n |->
                 (encryptedData.ciphertext[j] + 256
                    - GcmPad(key, encryptedData.iv, j)) % 256]
  IN IF n < 0 THEN Thrown("Failed to decrypt data")
     ELSE IF asString THEN Returned(Str(TextDecoder_decode(data)))
     ELSE Returned(Buf(data))
decryptData(encryptedData, key, asString) ==
  LET decrypted == subtleDecrypt(key, encryptedData.iv, encryptedData.ciphertext)
  IN IF ~decrypted.ok THEN Thrown("Failed to decrypt data")
     ELSE IF asString THEN Returned(Str(TextDecoder_decode(decrypted.data)))
     ELSE Returned(Buf(decrypted.data))

\* ---------------------------------------------------------------- sign-in
\* registerUser and loginUser of src/lib/authService.ts over the userStore.

\* "a@b.c", "d@b.c" and "a@b" as code units
InEmails == {<<97, 64, 98, 46, 99>>, <<100, 64, 98, 46, 99>>, <<97, 64, 98>>}

\* /^[^\s@]+@[^\s@]+\.[^\s@]+$/.test(email)
emailRegex(email) ==
  LET plain(a, b) == a <= b /\ \A n \in a..b : email[n] \notin {32, 64}
  IN \E at \in 2..Len(email), dot \in 4..Len(email) :
        /\ email[at] = 64 /\ email[dot] = 46 /\ at + 1 < dot
        /\ plain(1, at - 1) /\ plain(at + 1, dot - 1) /\ plain(dot + 1, Len(email))

NoUser == [exists |-> FALSE, authHash |-> <<>>, salt |-> <<>>, userId |-> <<>>]
\* { success: false, error: { code, message } }; the messages are given
\* here in English
AuthError(code, message) ==
  [success |-> FALSE, code |-> code, message |-> message, userId |-> <<>>]
AuthSuccess(userId) ==
  [success |-> TRUE, code |-> "", message |-> "", userId |-> userId]
\* fetch(route, { method: 'POST', body: JSON.stringify(body) })
AuthRequest(route, email, password, userId) ==
  [route |-> route,
   body |-> {[name |-> "email", value |-> email],
             [name |-> "password", value |-> password],
             [name |-> "userId", value |-> userId]}]

NoCall == [op |-> "", email |-> <<>>, password |-> <<>>, response |-> ""]

AuthInit ==
  /\ userDb = [e \in InEmails |-> NoUser]
  /\ authSent = {}
  /\ authResult = AuthError("", "")
  /\ authCall = NoCall

\* crypto.randomUUID() of userStore.create: a fresh id per record
randomUUID == <<1 + Cardinality({e \in InEmails : userDb[e].exists})>>

\* POST /api/auth/login and /api/auth/register: no check of the password,
\* a token unless a field is empty or generateToken throws (fate)
authRoute(request, fate) ==
  IF \E f \in request.body : f.value = <<>>
    THEN AuthError("INVALID_INPUT", "email, password and user id must not be empty")
  ELSE IF fate = "INTERNAL_ERROR"
    THEN AuthError("INTERNAL_ERROR", "login failed, try again later")
  ELSE AuthSuccess(<<>>)

\* What the catch of registerUser / loginUser returns
RegisterFailed == AuthError("INTERNAL_ERROR", "registration failed, try again later")
LoginFailed == AuthError("INTERNAL_ERROR", "login failed, try again later")
\* What loginUser returns for a password whose hash is not the stored one
InvalidPassword_AsFailure == LoginFailed
InvalidPassword == AuthError("INVALID_PASSWORD", "wrong password")

\* registerUser(email, password); salt is what the random source gives and
\* response is the fate of the request (answered with success, answered
\* with an error, or never answered)
registerUser(email, password, salt, response) ==
  IF ~emailRegex(email)
    THEN /\ authResult' = AuthError("INVALID_EMAIL", "enter a valid email address")
         /\ UNCHANGED <<userDb, authSent>>
  ELSE IF Len(password) < 8
    THEN /\ authResult' = AuthError("WEAK_PASSWORD", "the password needs at least 8 characters")
         /\ UNCHANGED <<userDb, authSent>>
  ELSE IF userDb[email].exists
    THEN /\ authResult' = AuthError("EMAIL_EXISTS", "this email is already registered")
         /\ UNCHANGED <<userDb, authSent>>
  ELSE LET authHash == deriveAuthHash(password, salt)
           userId == randomUUID
           request == AuthRequest("/api/auth/register", email, password, userId)
           data == authRoute(request, response)
       IN /\ userDb' = [userDb EXCEPT ![email] =
                 [exists |-> TRUE, authHash |-> authHash, salt |-> salt,
                  userId |-> userId]]
          /\ authSent' = authSent \cup {request}
          /\ authResult' = IF response = "unreachable" THEN RegisterFailed
                           ELSE IF ~data.success THEN data
                           ELSE AuthSuccess(userId)

\* loginUser(email, password)
loginUser(email, password, response) ==
  LET user == userDb[email]
  IN IF ~user.exists
       THEN /\ authResult' = AuthError("USER_NOT_FOUND", "no such user, register first")
            /\ UNCHANGED <<userDb, authSent>>
     ELSE IF user.authHash # deriveAuthHash(password, user.salt)
       THEN authResult' = InvalidPassword /\ UNCHANGED <<userDb, authSent>>
     ELSE LET request == AuthRequest("/api/auth/login", email, password, user.userId)
              data == authRoute(request, response)
          IN /\ authSent' = authSent \cup {request}
             /\ authResult' = IF response = "unreachable" THEN LoginFailed
                              ELSE IF ~data.success THEN data
                              ELSE AuthSuccess(user.userId)
             /\ UNCHANGED userDb

Responses == {"success", "INTERNAL_ERROR", "unreachable"}
RegisterUser ==
  /\ \E email \in InEmails, password \in InPasswords, salt \in Salts,
        response \in Responses :
       /\ registerUser(email, password, salt, response)
       /\ authCall' = [op |-> "register", email |-> email,
                       password |-> password, response |-> response]
  /\ UNCHANGED outsideAuth
LoginUser ==
  /\ \E email \in InEmails, password \in InPasswords, response \in Responses :
       /\ loginUser(email, password, response)
       /\ authCall' = [op |-> "login", email |-> email,
                       password |-> password, response |-> response]
  /\ UNCHANGED outsideAuth

AuthNext ==
  \/ RegisterUser
  \/ LoginUser

\* ------------------------------------------------------ envelopes at rest
NoKey == [exists |-> FALSE, key |-> CryptoKey(<<>>)]
NoEnvelope ==
  [exists |-> FALSE, envelope |-> [ciphertext |-> <<>>, iv |-> <<>>],
   data |-> Str(<<>>), key |-> CryptoKey(<<>>), tampers |-> 0]
NoOutcome ==
  [called |-> FALSE, key |-> CryptoKey(<<>>), asString |-> TRUE,
   result |-> Thrown("")]

CipherInit ==
  /\ masterKey = NoKey
  /\ stored = NoEnvelope
  /\ outcome = NoOutcome

\* keyManager.setMasterKey(await deriveKeyFromPassword(password, salt))
setMasterKey(password, salt) ==
  /\ masterKey' = [exists |-> TRUE, key |-> deriveKeyFromPassword(password, salt)]
  /\ UNCHANGED <<stored, outcome>>

\* encryptData(data, keyManager.getMasterKey()), the envelope put to storage
encrypt(data, iv) ==
  /\ masterKey.exists
  /\ stored' = [exists |-> TRUE, envelope |-> encryptData(data, masterKey.key, iv),
                data |-> data, key |-> masterKey.key, tampers |-> 0]
  /\ outcome' = NoOutcome
  /\ UNCHANGED masterKey

\* The storage is untrusted: one byte of the ciphertext or of its tag changes
\* (its lowest bit flips)
tamper(pos) ==
  /\ stored.exists
  /\ stored.tampers < MaxTampers
  /\ pos \in 1..Len(stored.envelope.ciphertext)
  /\ LET b == stored.envelope.ciphertext[pos]
         flipped == IF b % 2 = 0 THEN b + 1 ELSE b - 1
     IN stored' = [stored EXCEPT !.envelope.ciphertext[pos] = flipped,
                                 !.tampers = @ + 1]
  /\ outcome' = NoOutcome
  /\ UNCHANGED masterKey

\* decryptData(envelope, keyManager.getMasterKey(), asString)
decrypt(asString) ==
  /\ stored.exists
  /\ masterKey.exists
  /\ outcome' = [called |-> TRUE, key |-> masterKey.key, asString |-> asString,
                 result |-> decryptData(stored.envelope, masterKey.key, asString)]
  /\ UNCHANGED <<masterKey, stored>>

SetMasterKey ==
  /\ \E password \in Passwords, salt \in Salts : setMasterKey(password, salt)
  /\ UNCHANGED outsideCipher
Encrypt ==
  /\ \E data \in Plaintexts, iv \in Ivs : encrypt(data, iv)
  /\ UNCHANGED outsideCipher
Tamper ==
  /\ \E pos \in 1..(3 * MaxPlain + tagLength) : tamper(pos)
  /\ UNCHANGED outsideCipher
Decrypt ==
  /\ \E asString \in BOOLEAN : decrypt(asString)
  /\ UNCHANGED outsideCipher

CipherNext ==
  \/ SetMasterKey
  \/ Encrypt
  \/ Tamper
  \/ Decrypt

\* ============================================================ attachments
\* StreamEncryptionService (src/services/StreamEncryptionService.ts): one
\* encryptAndUploadFile call against the blob store.  The call is suspended
\* at the PUT of each chunk; the store and the network answer as they will.

\* Largest file, in bytes.
MaxFileSize == 5
\* DEFAULT_CONFIG.chunkSize (1 MiB in the source), in bytes.
chunkSize == 2

FileBytes == {7, 9}
Files == SeqsUpTo(FileBytes, MaxFileSize)

\* ----------------------------------------------------------------- base64
B64Index(c) ==
  IF c \in 65..90 THEN c - 65
  ELSE IF c \in 97..122 THEN c - 71
  ELSE IF c \in 48..57 THEN c + 4
  ELSE IF c = 43 THEN 62
  ELSE IF c = 47 THEN 63
  ELSE -1
B64Char(v) ==
  IF v < 26 THEN v + 65
  ELSE IF v < 52 THEN v + 71
  ELSE IF v < 62 THEN v - 4
  ELSE IF v = 62 THEN 43 ELSE 47

\* btoa over the bytes of a buffer ('=' is 61)
RECURSIVE arrayBufferToBase64(_)
arrayBufferToBase64(b) ==
  IF b = <<>> THEN <<>>
  ELSE IF Len(b) = 1
    THEN <<B64Char(b[1] \div 4), B64Char((b[1] % 4) * 16), 61, 61>>
  ELSE IF Len(b) = 2
    THEN <<B64Char(b[1] \div 4), B64Char((b[1] % 4) * 16 + (b[2] \div 16)),
           B64Char((b[2] % 16) * 4), 61>>
  ELSE <<B64Char(b[1] \div 4), B64Char((b[1] % 4) * 16 + (b[2] \div 16)),
         B64Char((b[2] % 16) * 4 + (b[3] \div 64)), B64Char(b[3] % 64)>>
       \o arrayBufferToBase64(SubSeq(b, 4, Len(b)))

\* The bytes that a run of base64 characters without padding spells
RECURSIVE B64Bytes(_)
B64Bytes(c) ==
  LET v(n) == B64Index(c[n])
  IN IF Len(c) < 2 THEN <<>>
     ELSE IF Len(c) = 2 THEN <<v(1) * 4 + (v(2) \div 16)>>
     ELSE IF Len(c) = 3
       THEN <<v(1) * 4 + (v(2) \div 16), (v(2) % 16) * 16 + (v(3) \div 4)>>
     ELSE <<v(1) * 4 + (v(2) \div 16), (v(2) % 16) * 16 + (v(3) \div 4),
            (v(3) % 4) * 64 + v(4)>>
          \o B64Bytes(SubSeq(c, 5, Len(c)))

\* atob, then the bytes of its result.  atob removes up to two '=' from a
\* text whose length is a multiple of 4 and throws InvalidCharacterError
\* for a character outside the alphabet or a remaining length of 4k + 1.
\* decoder = "lenient" is a decoder that skips such characters instead.
base64ToArrayBuffer(base64, decoder) ==
  LET n == Len(base64)
      pad == IF n % 4 = 0 /\ n > 0 /\ base64[n] = 61
               THEN (IF base64[n - 1] = 61 THEN 2 ELSE 1) ELSE 0
      data == SubSeq(base64, 1, n - pad)
      clean == SelectSeq(data, LAMBDA c : B64Index(c) >= 0)
  IN IF decoder = "lenient" THEN [ok |-> TRUE, bytes |-> B64Bytes(clean)]
     ELSE IF clean # data \/ Len(data) % 4 = 1
       THEN [ok |-> FALSE, bytes |-> <<>>]
     ELSE [ok |-> TRUE, bytes |-> B64Bytes(data)]

\* --------------------------------------------------------------- pipeline
\* KEY_DERIVATION_CONFIG.iterations
fileKeyIterations == 100000

\* A key of crypto.subtle with what the platform checks on every use
SubtleKey(raw, algorithm, extractable, usages) ==
  [algorithm |-> algorithm, extractable |-> extractable, raw |-> raw,
   usages |-> usages]
NoFileKey == SubtleKey(<<>>, "", FALSE, {})

\* crypto.randomUUID(): 8-4-4-4-12 hexadecimal digits joined by '-' (45),
\* here 00000000-0000-4000-8000-000000000000
generateId ==
  [n \in 1..36 |-> IF n \in {9, 14, 19, 24} THEN 45
                   ELSE IF n = 15 THEN 52 ELSE IF n = 20 THEN 56 ELSE 48]

\* The master key handed to initialize, in base64
InMasterKeys ==
  {arrayBufferToBase64(deriveKeyFromPassword([n \in 1..8 |-> 97], salt).raw) :
     salt \in Salts}

Resolved(value) == [ok |-> TRUE, value |-> value, error |-> ""]
Rejected(error) == [ok |-> FALSE, value |-> NoFileKey, error |-> error]

\* deriveFileKey(attachmentId): the id is taken for base64 and decoded to
\* the PBKDF2 salt
deriveFileKey(attachmentId, decoder) ==
  LET salt == base64ToArrayBuffer(attachmentId, decoder)
  IN IF ~salt.ok THEN Rejected("InvalidCharacterError")
     ELSE IF "deriveKey" \notin cryptoKey.usages THEN Rejected("InvalidAccessError")
     ELSE Resolved(SubtleKey(PBKDF2(cryptoKey.raw, salt.bytes, fileKeyIterations,
                                    "SHA-256", keyLength),
                             "AES-GCM", FALSE, {"encrypt", "decrypt"}))

\* chunkFile(file): slices of chunkSize bytes from offset 0 on
RECURSIVE chunkFile_DropsTail(_)
chunkFile_DropsTail(file) ==
  IF Len(file) < chunkSize THEN <<>>
  ELSE <<SubSeq(file, 1, chunkSize)>>
         \o chunkFile_DropsTail(SubSeq(file, chunkSize + 1, Len(file)))
RECURSIVE chunkFile(_)
chunkFile(file) ==
  IF Len(file) = 0 THEN <<>>
  ELSE LET end == IF chunkSize < Len(file) THEN chunkSize ELSE Len(file)
       IN <<SubSeq(file, 1, end)>> \o chunkFile(SubSeq(file, end + 1, Len(file)))

\* combineChunks(chunks): the chunks one after the other
combineChunks(chunks) == Flatten(chunks)

\* encryptChunk(data, key) with the IV drawn
encryptChunk(data, key, iv) ==
  [encryptedData |-> arrayBufferToBase64(subtleEncrypt(key, iv, data)),
   iv |-> arrayBufferToBase64(iv)]

\* `attachments/${noteId}/${attachmentId}/chunk_${i}`
S3Key(noteId, attachmentId, i) ==
  [noteId |-> noteId, attachmentId |-> attachmentId, chunk |-> i]

\* encryptFileKey(fileKey): exportKey('raw', fileKey), then AES-GCM under
\* this.cryptoKey; both are refused for the keys this service makes
encryptFileKey(fileKey, iv) ==
  IF ~fileKey.extractable THEN Rejected("InvalidAccessError")
  ELSE IF cryptoKey.algorithm # "AES-GCM" \/ "encrypt" \notin cryptoKey.usages
    THEN Rejected("InvalidAccessError")
  ELSE Resolved(SubtleKey(arrayBufferToBase64(subtleEncrypt(cryptoKey, iv, fileKey.raw))
                            \o <<46>> \o arrayBufferToBase64(iv),
                          "encrypted", FALSE, {}))

\* What onProgress is called with (a callback is always passed)
Signal_Stuck(processed, totalChunks, status) ==
  [uploadedChunks |-> 0, totalChunks |-> totalChunks, status |-> status]
Signal(processed, totalChunks, status) ==
  [uploadedChunks |-> processed, totalChunks |-> totalChunks,
   status |-> status]

NoPut == [sent |-> FALSE, ok |-> FALSE]
NoAttachment ==
  [exists |-> FALSE, id |-> <<>>, fileSize |-> 0, encryptedChunks |-> <<>>,
   fileKey |-> <<>>]
NoUpload ==
  [pc |-> "idle", file |-> <<>>, noteId |-> "", attachmentId |-> <<>>,
   fileKey |-> NoFileKey,
   chunks |-> <<>>, i |-> 0, encryptedChunks |-> <<>>, encryptedChunk |-> <<>>,
   put |-> NoPut, error |-> "", attachment |-> NoAttachment,
   progress |-> <<>>]

FileInit ==
  /\ cryptoKey = NoFileKey
  /\ upload = NoUpload
  /\ s3 = {}

\* initialize(masterKey)
initialize(key) ==
  /\ upload.pc = "idle"
  /\ LET raw == base64ToArrayBuffer(key, "strict")
     IN cryptoKey' = SubtleKey(raw.bytes, "PBKDF2", FALSE, {"deriveKey"})
  /\ UNCHANGED <<upload, s3>>

Throw(error) == upload' = [upload EXCEPT !.pc = "thrown", !.error = error]

\* encryptAndUploadFile(file, noteId) up to the loop over the chunks
encryptAndUploadFile(file, noteId, decoder) ==
  /\ upload.pc = "idle"
  /\ IF cryptoKey = NoFileKey
       THEN Throw("Encryption service not initialized")
     ELSE LET attachmentId == generateId
              fileKey == deriveFileKey(attachmentId, decoder)
          IN IF ~fileKey.ok THEN Throw(fileKey.error)
             ELSE upload' = [upload EXCEPT !.pc = "loop", !.file = file,
                               !.noteId = noteId,
                               !.attachmentId = attachmentId,
                               !.fileKey = fileKey.value,
                               !.chunks = chunkFile(file), !.i = 0]
  /\ UNCHANGED <<cryptoKey, s3>>

\* What a PUT to the presigned URL can come to: the object written and the
\* response ok; a response that is not ok and nothing written; the object
\* written and the response lost; the store never reached
PutOutcomes == {"written", "refused", "lost", "unreachable"}

\* One pass of the loop up to the PUT request: encryptChunk,
\* getS3PresignedUrl, and the fetch of uploadChunkToS3
uploadChunkToS3(iv, fate) ==
  /\ upload.pc = "loop"
  /\ upload.i < Len(upload.chunks)
  /\ LET chunk == upload.chunks[upload.i + 1]
         encryptedChunk == encryptChunk(chunk, upload.fileKey, iv)
         s3Key == S3Key(upload.noteId, upload.attachmentId, upload.i)
         body == base64ToArrayBuffer(encryptedChunk.encryptedData, "strict").bytes
     IN /\ s3' = IF fate \in {"written", "lost"}
                   THEN {o \in s3 : o.s3Key # s3Key}
                          \cup {[s3Key |-> s3Key, body |-> body]}
                   ELSE s3
        /\ IF fate \in {"lost", "unreachable"}
             THEN upload' =
                    [upload EXCEPT !.pc = "thrown", !.error = "TypeError",
                       !.progress =
                          Append(@, Signal(upload.i, Len(upload.chunks),
                                           "uploading"))]
           ELSE upload' =
                  [upload EXCEPT !.pc = "put",
                     !.progress =
                        Append(@, Signal(upload.i, Len(upload.chunks),
                                         "uploading")),
                     !.encryptedChunk =
                        <<[chunkIndex |-> upload.i,
                           encryptedData |-> encryptedChunk.encryptedData,
                           iv |-> encryptedChunk.iv, s3Key |-> s3Key,
                           size |-> Len(chunk)]>>,
                     !.put = [sent |-> TRUE, ok |-> fate = "written"]]
  /\ UNCHANGED cryptoKey

\* The rest of the pass: the response of the PUT is looked at, and the chunk
\* is pushed to encryptedChunks
uploadChunkAcknowledged_Unchecked ==
  /\ upload.pc = "put"
  /\ upload' = [upload EXCEPT !.pc = "loop", !.i = @ + 1,
                   !.encryptedChunks = @ \o upload.encryptedChunk,
                   !.encryptedChunk = <<>>, !.put = NoPut]
  /\ UNCHANGED <<cryptoKey, s3>>
uploadChunkAcknowledged ==
  /\ upload.pc = "put"
  /\ IF ~upload.put.ok
       THEN Throw("Failed to upload chunk to S3")
     ELSE upload' = [upload EXCEPT !.pc = "loop", !.i = @ + 1,
                       !.encryptedChunks = @ \o upload.encryptedChunk,
                       !.encryptedChunk = <<>>, !.put = NoPut]
  /\ UNCHANGED <<cryptoKey, s3>>

\* After the loop: calculateChecksum, encryptFileKey, and the Attachment
\* (its fileName, encryptString under this.cryptoKey, is left out)
returnAttachment(iv) ==
  /\ upload.pc = "loop"
  /\ upload.i = Len(upload.chunks)
  /\ LET encryptedFileKey == encryptFileKey(upload.fileKey, iv)
     IN IF ~encryptedFileKey.ok THEN Throw(encryptedFileKey.error)
        ELSE upload' =
               [upload EXCEPT !.pc = "returned",
                  !.progress =
                     Append(@, Signal(Len(upload.chunks), Len(upload.chunks),
                                      "completed")),
                  !.attachment =
                     [exists |-> TRUE, id |-> upload.attachmentId,
                      fileSize |-> Len(upload.file),
                      encryptedChunks |-> upload.encryptedChunks,
                      fileKey |-> encryptedFileKey.value.raw]]
  /\ UNCHANGED <<cryptoKey, s3>>

\* The page is closed while the promise is pending
abandon ==
  /\ upload.pc \in {"loop", "put"}
  /\ upload' = [upload EXCEPT !.pc = "abandoned"]
  /\ UNCHANGED <<cryptoKey, s3>>

InNoteIds == {"note-1"}
\* atob of the platform: "strict" is the one of the HTML standard, which
\* refuses the '-' of a UUID; "lenient" skips what is not base64, and is
\* there to look at the steps behind deriveFileKey
Decoders == {"strict", "lenient"}

Initialize ==
  /\ \E key \in InMasterKeys : initialize(key)
  /\ UNCHANGED outsideFile
EncryptAndUploadFile ==
  /\ \E file \in Files, noteId \in InNoteIds, decoder \in Decoders :
       encryptAndUploadFile(file, noteId, decoder)
  /\ UNCHANGED outsideFile
UploadChunkToS3 ==
  /\ \E iv \in Ivs, fate \in PutOutcomes : uploadChunkToS3(iv, fate)
  /\ UNCHANGED outsideFile
UploadChunkAcknowledged ==
  /\ uploadChunkAcknowledged
  /\ UNCHANGED outsideFile
ReturnAttachment ==
  /\ \E iv \in Ivs : returnAttachment(iv)
  /\ UNCHANGED outsideFile
Abandon ==
  /\ abandon
  /\ UNCHANGED outsideFile

FileNext ==
  \/ Initialize
  \/ EncryptAndUploadFile
  \/ UploadChunkToS3
  \/ UploadChunkAcknowledged
  \/ ReturnAttachment
  \/ Abandon

\* --------------------------------------------------------------- download
\* downloadAndDecryptFile against the same store.  The attachments handed to
\* it are those of an uploader that completes, with their chunk list in
\* order or not and their checksum that of the file or of another.

\* Objects the store may lose or corrupt.
MaxFaults == 1

\* Usage checks of crypto.subtle: "enforcing" is the platform of the Web
\* Cryptography standard, which refuses AES-GCM with the PBKDF2 key of
\* initialize; "permissive" lets it pass, and is there to look at the steps
\* behind decryptFileKey
Platforms == {"enforcing", "permissive"}
Usable(key, algorithm, usage, platform) ==
  \/ platform = "permissive"
  \/ key.algorithm = algorithm /\ usage \in key.usages

\* crypto.subtle.digest('SHA-256', buffer): 32 bytes that no two buffers of
\* less than 32 bytes share
SHA256(buffer) ==
  [n \in 1..32 |-> IF n = 1 THEN Len(buffer)
                   ELSE IF n - 1 <= Len(buffer) THEN buffer[n - 1] ELSE 0]
calculateChecksum(buffer) == arrayBufferToBase64(SHA256(buffer))

\* const [encrypted, iv] = text.split('.'); a missing part is undefined,
\* which atob reads as the string "undefined"
Undefined == <<117, 110, 100, 101, 102, 105, 110, 101, 100>>
SplitDot(text) ==
  LET dots == {n \in 1..Len(text) : text[n] = 46}
      Least(S) == CHOOSE n \in S : \A m \in S : n <= m
  IN IF dots = {} THEN <<text, Undefined>>
     ELSE LET d == Least(dots)
              rest == {n \in dots : n > d}
              e == IF rest = {} THEN Len(text) + 1 ELSE Least(rest)
          IN <<SubSeq(text, 1, d - 1), SubSeq(text, d + 1, e - 1)>>

\* The AES-GCM decryption shared by decryptFileKey and decryptString
decryptUnderMasterKey(text, platform) ==
  LET parts == SplitDot(text)
      iv == base64ToArrayBuffer(parts[2], "strict")
      encrypted == base64ToArrayBuffer(parts[1], "strict")
  IN IF ~iv.ok \/ ~encrypted.ok
       THEN [ok |-> FALSE, data |-> <<>>, error |-> "InvalidCharacterError"]
     ELSE IF ~Usable(cryptoKey, "AES-GCM", "decrypt", platform)
       THEN [ok |-> FALSE, data |-> <<>>, error |-> "InvalidAccessError"]
     ELSE LET decrypted == subtleDecrypt(cryptoKey, iv.bytes, encrypted.bytes)
          IN IF ~decrypted.ok
               THEN [ok |-> FALSE, data |-> <<>>, error |-> "OperationError"]
             ELSE [ok |-> TRUE, data |-> decrypted.data, error |-> ""]

\* decryptFileKey(encryptedFileKey)
decryptFileKey(encryptedFileKey, platform) ==
  LET decrypted == decryptUnderMasterKey(encryptedFileKey, platform)
  IN IF ~decrypted.ok THEN Rejected(decrypted.error)
     ELSE IF 8 * Len(decrypted.data) \notin {128, 192, 256}
       THEN Rejected("DataError")
     ELSE Resolved(SubtleKey(decrypted.data, "AES-GCM", FALSE,
                             {"encrypt", "decrypt"}))

\* decryptString(encryptedText)
decryptString(encryptedText, platform) ==
  LET decrypted == decryptUnderMasterKey(encryptedText, platform)
  IN [decrypted EXCEPT !.data = TextDecoder_decode(@)]

\* ---- the attachments handed to downloadAndDecryptFile
\* An AES-GCM encryption under the master key, as "<base64>.<base64 of iv>"
sealed(masterRaw, iv, data) ==
  arrayBufferToBase64(subtleEncrypt([raw |-> masterRaw], iv, data))
    \o <<46>> \o arrayBufferToBase64(iv)

FileName == <<97>>
TheIv == [n \in 1..ivLength |-> 1]

\* The attachment a completing uploader makes of `file` under the master
\* key: its chunk list swapped or not, its checksum that of `claimed`
PublishedAttachment(masterRaw, file, swapped, claimed) ==
  LET id == generateId
      fileKey ==
        SubtleKey(PBKDF2(masterRaw, base64ToArrayBuffer(id, "lenient").bytes,
                         fileKeyIterations, "SHA-256", keyLength),
                  "AES-GCM", TRUE, {"encrypt", "decrypt"})
      chunks == chunkFile(file)
      n == Len(chunks)
      list == [k \in 1..n |->
                 LET e == encryptChunk(chunks[k], fileKey, TheIv)
                 IN [chunkIndex |-> k - 1, encryptedData |-> e.encryptedData,
                     iv |-> e.iv, s3Key |-> S3Key("note-1", id, k - 1),
                     size |-> Len(chunks[k])]]
  IN [id |-> id,
      fileName |-> sealed(masterRaw, TheIv, TextEncoder_encode(FileName)),
      encryptedChunks |->
        IF swapped /\ n >= 2
          THEN [k \in 1..n |-> IF k = 1 THEN list[2]
                               ELSE IF k = 2 THEN list[1] ELSE list[k]]
          ELSE list,
      fileKey |-> sealed(masterRaw, TheIv, fileKey.raw),
      checksum |-> calculateChecksum(claimed)]

\* The empty file, and two files of one byte more than a chunk
TwoChunks(first, rest) ==
  [n \in 1..(chunkSize + 1) |-> IF n = 1 THEN first ELSE rest]
DownloadFiles == {<<>>, TwoChunks(7, 9), TwoChunks(9, 9)}
MasterKeys == {base64ToArrayBuffer(key, "strict").bytes : key \in InMasterKeys}
InAttachments ==
  {PublishedAttachment(masterRaw, file, swapped, claimed) :
     masterRaw \in MasterKeys, file \in DownloadFiles, swapped \in BOOLEAN,
     claimed \in DownloadFiles}

\* The objects the uploader wrote for an attachment
Objects(attachment) ==
  {[s3Key |-> attachment.encryptedChunks[k].s3Key,
    body |-> base64ToArrayBuffer(attachment.encryptedChunks[k].encryptedData,
                                 "strict").bytes] :
     k \in 1..Len(attachment.encryptedChunks)}

NoDownloadAttachment ==
  [id |-> <<>>, fileName |-> <<>>, encryptedChunks |-> <<>>, fileKey |-> <<>>,
   checksum |-> <<>>]
NoDownload ==
  [pc |-> "idle", attachment |-> NoDownloadAttachment, platform |-> "",
   fileKey |-> NoFileKey, i |-> 0, decryptedChunks |-> <<>>, blob |-> <<>>,
   progress |-> <<>>, error |-> "", published |-> FALSE, faults |-> 0]

DownloadInit == download = NoDownload

ThrowDownload(error) ==
  download' = [download EXCEPT !.pc = "thrown", !.error = error]

\* An uploader elsewhere has written the attachment's chunks
publish(attachment) ==
  /\ download.pc = "idle"
  /\ ~download.published
  /\ s3' = s3 \cup Objects(attachment)
  /\ download' = [download EXCEPT !.published = TRUE]
  /\ UNCHANGED cryptoKey

\* The store loses an object
loseChunk(o) ==
  /\ download.faults < MaxFaults
  /\ download.pc \in {"idle", "loop"}
  /\ o \in s3
  /\ s3' = s3 \ {o}
  /\ download' = [download EXCEPT !.faults = @ + 1]
  /\ UNCHANGED cryptoKey

\* One byte of an object changes in the store (its lowest bit flips)
corruptChunk(o, pos) ==
  /\ download.faults < MaxFaults
  /\ download.pc \in {"idle", "loop"}
  /\ o \in s3
  /\ pos \in 1..Len(o.body)
  /\ LET b == o.body[pos]
         flipped == IF b % 2 = 0 THEN b + 1 ELSE b - 1
     IN s3' = (s3 \ {o}) \cup {[o EXCEPT !.body[pos] = flipped]}
  /\ download' = [download EXCEPT !.faults = @ + 1]
  /\ UNCHANGED cryptoKey

\* downloadAndDecryptFile(attachment, onProgress) up to the loop
downloadAndDecryptFile(attachment, platform) ==
  /\ download.pc = "idle"
  /\ IF cryptoKey = NoFileKey
       THEN ThrowDownload("Encryption service not initialized")
     ELSE LET fileKey == decryptFileKey(attachment.fileKey, platform)
          IN IF ~fileKey.ok THEN ThrowDownload(fileKey.error)
             ELSE download' = [download EXCEPT !.pc = "loop",
                                 !.attachment = attachment,
                                 !.platform = platform,
                                 !.fileKey = fileKey.value, !.i = 0]
  /\ UNCHANGED <<cryptoKey, s3>>

\* One pass of the loop: the progress report, getS3PresignedUrl,
\* downloadChunkFromS3, decryptChunk and the push
downloadChunk(fate) ==
  /\ download.pc = "loop"
  /\ download.i < Len(download.attachment.encryptedChunks)
  /\ LET encryptedChunk == download.attachment.encryptedChunks[download.i + 1]
         totalChunks == Len(download.attachment.encryptedChunks)
         fileName == decryptString(download.attachment.fileName, download.platform)
         found == {o \in s3 : o.s3Key = encryptedChunk.s3Key}
     IN IF ~fileName.ok THEN ThrowDownload(fileName.error)
        ELSE LET progress == Append(download.progress,
                                    Signal(download.i, totalChunks, "uploading"))
                 Fail(error) ==
                   download' = [download EXCEPT !.pc = "thrown",
                                  !.error = error, !.progress = progress]
             IN IF fate = "unreachable" THEN Fail("TypeError")
                ELSE IF found = {} THEN Fail("Failed to download chunk from S3")
                ELSE LET encryptedData ==
                           arrayBufferToBase64((CHOOSE o \in found : TRUE).body)
                         iv == base64ToArrayBuffer(encryptedChunk.iv, "strict")
                         decrypted ==
                           subtleDecrypt(download.fileKey, iv.bytes,
                                         base64ToArrayBuffer(encryptedData,
                                                             "strict").bytes)
                     IN IF ~iv.ok THEN Fail("InvalidCharacterError")
                        ELSE IF ~decrypted.ok THEN Fail("OperationError")
                        ELSE download' =
                               [download EXCEPT !.i = @ + 1,
                                  !.progress = progress,
                                  !.decryptedChunks = Append(@, decrypted.data)]
  /\ UNCHANGED <<cryptoKey, s3>>

\* After the loop: combineChunks, the Blob URL, the checksum and the last
\* progress report
verifyChecksum_Unverified ==
  /\ download.pc = "loop"
  /\ download.i = Len(download.attachment.encryptedChunks)
  /\ LET fileBuffer == combineChunks(download.decryptedChunks)
         totalChunks == Len(download.attachment.encryptedChunks)
     IN download' =
          [download EXCEPT !.pc = "returned", !.blob = fileBuffer,
             !.progress = Append(@, Signal(totalChunks, totalChunks, "completed"))]
  /\ UNCHANGED <<cryptoKey, s3>>
verifyChecksum ==
  /\ download.pc = "loop"
  /\ download.i = Len(download.attachment.encryptedChunks)
  /\ LET fileBuffer == combineChunks(download.decryptedChunks)
         totalChunks == Len(download.attachment.encryptedChunks)
         actualChecksum == calculateChecksum(fileBuffer)
         fileName == decryptString(download.attachment.fileName, download.platform)
     IN IF actualChecksum # download.attachment.checksum
          THEN download' = [download EXCEPT !.pc = "thrown", !.blob = fileBuffer,
                              !.error = "Checksum verification failed"]
        ELSE IF ~fileName.ok
          THEN download' = [download EXCEPT !.pc = "thrown", !.blob = fileBuffer,
                              !.error = fileName.error]
        ELSE download' =
               [download EXCEPT !.pc = "returned", !.blob = fileBuffer,
                  !.progress = Append(@, Signal(totalChunks, totalChunks,
                                                "completed"))]
  /\ UNCHANGED <<cryptoKey, s3>>

FetchFates == {"answered", "unreachable"}

InitializeDownload ==
  /\ download.pc = "idle"
  /\ \E key \in InMasterKeys : initialize(key)
  /\ UNCHANGED <<outsideDownload, download>>
Publish ==
  /\ \E attachment \in InAttachments : publish(attachment)
  /\ UNCHANGED outsideDownload
LoseChunk ==
  /\ \E o \in s3 : loseChunk(o)
  /\ UNCHANGED outsideDownload
CorruptChunk ==
  /\ \E o \in s3 : \E pos \in 1..Len(o.body) : corruptChunk(o, pos)
  /\ UNCHANGED outsideDownload
DownloadAndDecryptFile ==
  /\ \E attachment \in InAttachments, platform \in Platforms :
       downloadAndDecryptFile(attachment, platform)
  /\ UNCHANGED outsideDownload
DownloadChunk ==
  /\ \E fate \in FetchFates : downloadChunk(fate)
  /\ UNCHANGED outsideDownload
VerifyChecksum ==
  /\ verifyChecksum
  /\ UNCHANGED outsideDownload

DownloadNext ==
  \/ InitializeDownload
  \/ Publish
  \/ LoseChunk
  \/ CorruptChunk
  \/ DownloadAndDecryptFile
  \/ DownloadChunk
  \/ VerifyChecksum

\* ============================================================== reconnect
\* SyncManager of the client (lib/sync): the status handler of the
\* WebsocketProvider and scheduleReconnect.  The provider is the library's;
\* its socket opens, closes and is reopened as the network will.

\* Local edits counted while the model runs.
MaxPending == 2

\* SYNC_CONFIG
reconnectInterval == 5000
maxReconnectAttempts == 10

ReconnectInit ==
  syncManager =
    [status |-> "idle", errorMessage |-> "", pendingChanges |-> 0,
     reconnectAttempts |-> 0, reconnectTimer |-> 0, ws |-> "connecting",
     delays |-> <<>>]

clearReconnectTimer(m) == [m EXCEPT !.reconnectTimer = 0]

\* scheduleReconnect(): the timer is armed with the delay to wait
scheduleReconnect(m) ==
  IF m.reconnectAttempts >= maxReconnectAttempts
    THEN [m EXCEPT !.status = "error",
                   !.errorMessage = "Max reconnect attempts reached"]
  ELSE [clearReconnectTimer(m) EXCEPT !.reconnectTimer = reconnectInterval]

\* wsProvider.on('status', ...) for 'connected': the socket opened
statusConnected ==
  /\ syncManager.ws = "connecting"
  /\ syncManager' =
       [clearReconnectTimer(syncManager) EXCEPT
          !.ws = "connected", !.status = "synced", !.pendingChanges = 0,
          !.reconnectAttempts = 0, !.delays = <<>>]

\* ... for 'connecting': the provider opens a socket by itself
statusConnecting ==
  /\ syncManager.ws = "closed"
  /\ syncManager' = [syncManager EXCEPT !.ws = "connecting", !.status = "syncing"]

\* ... for 'disconnected': the socket closed, or failed to open
statusDisconnected ==
  /\ syncManager.ws \in {"connecting", "connected"}
  /\ syncManager' =
       scheduleReconnect([syncManager EXCEPT !.ws = "closed", !.status = "idle"])

\* The callback of the timer: the attempt is counted and the provider told
\* to connect, which opens a socket unless there is one
reconnectTimerFires ==
  /\ syncManager.reconnectTimer > 0
  /\ syncManager' =
       [syncManager EXCEPT
          !.reconnectAttempts = @ + 1,
          !.delays = Append(@, syncManager.reconnectTimer),
          !.reconnectTimer = 0,
          !.ws = IF @ = "closed" THEN "connecting" ELSE @,
          !.status = IF syncManager.ws = "closed" THEN "syncing" ELSE @]

\* wsProvider.on('connection-error', ...)
connectionError ==
  /\ syncManager.ws = "connecting"
  /\ syncManager' = [syncManager EXCEPT !.status = "error",
                                        !.errorMessage = "connection error"]

\* ydoc.on('update', ...) for a local edit
localUpdate ==
  /\ syncManager.pendingChanges < MaxPending
  /\ syncManager' = [syncManager EXCEPT !.pendingChanges = @ + 1]

StatusConnected ==
  /\ statusConnected
  /\ UNCHANGED outsideReconnect
StatusConnecting ==
  /\ statusConnecting
  /\ UNCHANGED outsideReconnect
StatusDisconnected ==
  /\ statusDisconnected
  /\ UNCHANGED outsideReconnect
ReconnectTimerFires ==
  /\ reconnectTimerFires
  /\ UNCHANGED outsideReconnect
ConnectionError ==
  /\ connectionError
  /\ UNCHANGED outsideReconnect
LocalUpdate ==
  /\ localUpdate
  /\ UNCHANGED outsideReconnect

ReconnectNext ==
  \/ StatusConnected
  \/ StatusConnecting
  \/ StatusDisconnected
  \/ ReconnectTimerFires
  \/ ConnectionError
  \/ LocalUpdate

\* ================================================================ session
\* The pages (handleAuth of the login page, handleLogout of the app page),
\* logoutUser of lib/authService and the KeyManager of lib/crypto, whose
\* masterKey is the variable of the envelopes above.

NoItems == [token |-> <<>>, userId |-> <<>>, email |-> <<>>, salt |-> <<>>]

SessionInit ==
  /\ localStorage = NoItems
  /\ pathname = "/"
  /\ privateKey = NoKey

\* What registerUser / loginUser hand to the page: the data of a success
\* (password verified, token issued) or an error
AuthResults ==
  {[success |-> TRUE, token |-> <<userId[1], 0>>, userId |-> userId,
    email |-> email, salt |-> salt] :
     userId \in {<<1>>, <<2>>}, email \in {<<97, 64, 98, 46, 99>>},
     salt \in Salts}
  \cup {[success |-> FALSE, token |-> <<>>, userId |-> <<>>, email |-> <<>>,
         salt |-> <<>>]}

\* handleAuth of the login page, from the result on
handleAuth(result) ==
  /\ pathname = "/"
  /\ IF result.success
       THEN /\ localStorage' = [token |-> result.token, userId |-> result.userId,
                                email |-> result.email, salt |-> result.salt]
            /\ pathname' = "/app"
     ELSE UNCHANGED <<localStorage, pathname>>
  /\ UNCHANGED <<privateKey, syncManager>>

\* SyncManager.disconnect()
disconnect(m) ==
  [clearReconnectTimer(m) EXCEPT !.ws = "closed", !.status = "idle",
                                 !.pendingChanges = 0]

\* handleLogout of the app page
handleLogout ==
  /\ pathname = "/app"
  /\ syncManager' = disconnect(syncManager)
  /\ localStorage' = NoItems
  /\ pathname' = "/"
  /\ UNCHANGED privateKey

\* logoutUser()
logoutUser ==
  /\ localStorage' = NoItems
  /\ UNCHANGED <<pathname, privateKey, syncManager>>

\* keyManager.setPrivateKey(key)
setPrivateKey(key) ==
  /\ privateKey' = [exists |-> TRUE, key |-> key]
  /\ UNCHANGED <<localStorage, pathname, syncManager>>

\* keyManager.clear()
clear ==
  /\ masterKey' = NoKey
  /\ privateKey' = NoKey
  /\ UNCHANGED <<stored, outcome, localStorage, pathname, syncManager>>

\* keyManager.isInitialized()
isInitialized == masterKey.exists

HandleAuth ==
  /\ \E result \in AuthResults : handleAuth(result)
  /\ UNCHANGED <<outsideSession, cipherVars>>
HandleLogout ==
  /\ handleLogout
  /\ UNCHANGED <<outsideSession, cipherVars>>
LogoutUser ==
  /\ logoutUser
  /\ UNCHANGED <<outsideSession, cipherVars>>
SetPrivateKey ==
  /\ \E password \in Passwords, salt \in Salts :
       setPrivateKey(deriveKeyFromPassword(password, salt))
  /\ UNCHANGED <<outsideSession, cipherVars>>

Clear ==
  /\ clear
  /\ UNCHANGED outsideSession

SessionNext ==
  \/ HandleAuth
  \/ HandleLogout
  \/ LogoutUser
  \/ SetPrivateKey
  \/ SetMasterKey
  \/ Clear

\* ============================================================= cloud sync
\* CloudSyncService (src/services/CloudSyncService.ts) and the three routes
\* /api/sync/upload, /api/sync/download and /api/sync/clear.  Each route
\* module declares its own `const syncDataStore = new Map()`, so the service
\* holds three maps, one per route: syncDataStore.upload is the map of
\* upload/route.ts, syncDataStore.download that of download/route.ts and
\* syncDataStore.clear that of clear/route.ts.
\*
\* The client's clock (Date.now(), new Date()) runs from 0 to MaxClock.
MaxClock == 2

NoteIds == {"n1", "n2"}
Titles == {"x", "y"}

\* The two forms an updatedAt takes: the Date object createNote and updateNote
\* write, and the ISO string Date.prototype.toJSON turns it into under
\* JSON.stringify (JSON.parse has no reviver and leaves the string).
DateValue(t) == [kind |-> "Date", t |-> t]
IsoString(t) == [kind |-> "string", t |-> t]
toJSON(value) == IF value.kind = "Date" THEN IsoString(value.t) ELSE value

NoNote ==
  [exists |-> FALSE, title |-> "", updatedAt |-> [kind |-> "none", t |-> 0]]
Note(title, updatedAt) ==
  [exists |-> TRUE, title |-> title, updatedAt |-> updatedAt]
NoNotes == [id \in NoteIds |-> NoNote]

\* JSON.stringify(syncData): the notes of the table with their dates as
\* strings.  `present` is false for the empty or missing `data` of a request.
JSON_stringify(table) ==
  [present |-> TRUE,
   notes |-> [id \in NoteIds |->
                IF table[id].exists
                  THEN Note(table[id].title, toJSON(table[id].updatedAt))
                  ELSE NoNote]]
JSON_parse(data) == data.notes
EmptyData == [present |-> FALSE, notes |-> NoNotes]

\* a > b of JavaScript on two updatedAt values: two strings compare as
\* strings (ISO strings of one format order as their instants do), two Dates
\* by valueOf(); a string against a Date converts the string with Number(),
\* which is NaN for an ISO string, and every comparison with NaN is false.
GreaterThan(a, b) == IF a.kind = b.kind THEN a.t > b.t ELSE FALSE

\* An entry of a syncDataStore map.  (Its third field, timestamp, is written
\* and returned but never read by a route or by the client; it is left out.)
NoEntry == [exists |-> FALSE, data |-> EmptyData, version |-> 0]
Entry(data, version) == [exists |-> TRUE, data |-> data, version |-> version]

\* What a route answers: NextResponse.json(body, { status })
Answer(method, userId, status, data, version) ==
  [method |-> method, userId |-> userId, status |-> status, data |-> data,
   version |-> version]
NoAnswer == Answer("none", Null, 0, EmptyData, 0)
\* fetch rejects: there is no response
NetworkError(method, userId) == Answer(method, userId, -1, EmptyData, 0)

NoSync ==
  [pc |-> "idle", userId |-> Null, token |-> NoToken, requests |-> <<>>,
   uploadResult |-> [success |-> FALSE, message |-> ""],
   result |-> [success |-> FALSE, message |-> ""], writes |-> 0]

NoMerge ==
  [ran |-> FALSE, before |-> NoNotes, cloud |-> NoNotes, after |-> NoNotes,
   syncedNotes |-> 0, conflicts |-> 0]

CloudInit ==
  /\ syncDataStore =
       [upload |-> [u \in Users |-> NoEntry],
        download |-> [u \in Users |-> NoEntry],
        clear |-> [u \in Users |-> NoEntry]]
  /\ acknowledged = [u \in Users |-> NoEntry]
  /\ httpResponse = NoAnswer
  /\ notes = NoNotes
  /\ clock = 0
  /\ cloudSync = NoSync
  /\ merged = NoMerge

\* POST /api/sync/upload on the map `store` of its module: the answer and the
\* map afterwards.
uploadRoute(store, authorization, requestUserId, data, version) ==
  LET decoded == verifyToken(authorization)
      userId == decoded.userId
  IN IF authorization.state = "absent"
       THEN [store |-> store,
             answer |-> Answer("POST", requestUserId, 401, EmptyData, 0)]
     ELSE IF ~decoded.ok
       THEN [store |-> store,
             answer |-> Answer("POST", requestUserId, 500, EmptyData, 0)]
     ELSE IF requestUserId # userId
       THEN [store |-> store,
             answer |-> Answer("POST", requestUserId, 403, EmptyData, 0)]
     ELSE IF ~data.present \/ version = 0
       THEN [store |-> store,
             answer |-> Answer("POST", requestUserId, 400, EmptyData, 0)]
     ELSE IF store[userId].exists /\ store[userId].version > version
       THEN [store |-> store,
             answer |-> Answer("POST", requestUserId, 409, EmptyData, 0)]
     ELSE [store |-> [store EXCEPT ![userId] = Entry(data, version)],
           answer |-> Answer("POST", requestUserId, 200, EmptyData, version)]

\* Mutant: the entry of the requested userId is returned to whoever holds a
\* token that verifies.
downloadRoute_AnyUser(store, authorization, requestUserId) ==
  IF ~verifyToken(authorization).ok
    THEN Answer("GET", requestUserId, 401, EmptyData, 0)
  ELSE IF ~store[requestUserId].exists
    THEN Answer("GET", requestUserId, 404, EmptyData, 0)
  ELSE Answer("GET", requestUserId, 200, store[requestUserId].data,
              store[requestUserId].version)

\* GET /api/sync/download?userId=... on the map of its module
downloadRoute(store, authorization, requestUserId) ==
  LET decoded == verifyToken(authorization)
      userId == decoded.userId
  IN IF authorization.state = "absent"
       THEN Answer("GET", requestUserId, 401, EmptyData, 0)
     ELSE IF ~decoded.ok
       THEN Answer("GET", requestUserId, 500, EmptyData, 0)
     ELSE IF requestUserId # userId
       THEN Answer("GET", requestUserId, 403, EmptyData, 0)
     ELSE IF ~store[userId].exists
       THEN Answer("GET", requestUserId, 404, EmptyData, 0)
     ELSE Answer("GET", requestUserId, 200, store[userId].data,
                 store[userId].version)

\* DELETE /api/sync/clear?userId=... on the map of its module
clearRoute(store, authorization, requestUserId) ==
  LET decoded == verifyToken(authorization)
      userId == decoded.userId
  IN IF authorization.state = "absent"
       THEN [store |-> store,
             answer |-> Answer("DELETE", requestUserId, 401, EmptyData, 0)]
     ELSE IF ~decoded.ok
       THEN [store |-> store,
             answer |-> Answer("DELETE", requestUserId, 500, EmptyData, 0)]
     ELSE IF requestUserId # userId
       THEN [store |-> store,
             answer |-> Answer("DELETE", requestUserId, 403, EmptyData, 0)]
     ELSE [store |-> [store EXCEPT ![userId] = NoEntry],
           answer |-> Answer("DELETE", requestUserId, 200, EmptyData, 0)]

\* What the service has told user U it holds: the data of U's last upload
\* answered 200, none after a clear answered 200.
Acknowledge(answer, data) ==
  IF answer.status # 200 \/ answer.method = "GET" THEN acknowledged
  ELSE IF answer.method = "POST"
    THEN [acknowledged EXCEPT
            ![answer.userId] = Entry(data, answer.version)]
  ELSE [acknowledged EXCEPT ![answer.userId] = NoEntry]

\* A device sends POST /api/sync/upload
POST(authorization, requestUserId, data, version) ==
  LET r == uploadRoute(syncDataStore.upload, authorization, requestUserId,
                       data, version)
  IN /\ syncDataStore' = [syncDataStore EXCEPT !.upload = r.store]
     /\ httpResponse' = r.answer
     /\ acknowledged' = Acknowledge(r.answer, data)
     /\ UNCHANGED <<notes, clock, cloudSync>>

\* A device sends GET /api/sync/download
GET(authorization, requestUserId) ==
  /\ httpResponse' =
       downloadRoute(syncDataStore.download, authorization, requestUserId)
  /\ UNCHANGED <<syncDataStore, acknowledged, notes, clock, cloudSync>>

\* A device sends DELETE /api/sync/clear
DELETE(authorization, requestUserId) ==
  LET r == clearRoute(syncDataStore.clear, authorization, requestUserId)
  IN /\ syncDataStore' = [syncDataStore EXCEPT !.clear = r.store]
     /\ httpResponse' = r.answer
     /\ acknowledged' = Acknowledge(r.answer, EmptyData)
     /\ UNCHANGED <<notes, clock, cloudSync>>

\* createNote of lib/db: a new row with updatedAt = new Date()
createNote(id, title) ==
  /\ ~notes[id].exists
  /\ notes' = [notes EXCEPT ![id] = Note(title, DateValue(clock))]
  /\ UNCHANGED <<syncDataStore, acknowledged, httpResponse, clock, cloudSync>>

\* updateNote of lib/db: the row with updatedAt = new Date()
updateNote(id, title) ==
  /\ notes[id].exists
  /\ notes' = [notes EXCEPT ![id] = Note(title, DateValue(clock))]
  /\ UNCHANGED <<syncDataStore, acknowledged, httpResponse, clock, cloudSync>>

\* Time passes at the client
clientTick ==
  /\ clock < MaxClock
  /\ clock' = clock + 1
  /\ UNCHANGED <<syncDataStore, acknowledged, httpResponse, notes, cloudSync>>

\* mergeData: the notes of the cloud data against the local table.  The cloud
\* notes come from one table's toArray(), so their ids are distinct and the
\* loop's iterations do not affect one another.  (Files and key materials are
\* merged by the same loop on createdAt, without a conflict count.)
mergeData(local, cloudData) ==
  LET added == {id \in NoteIds : cloudData[id].exists /\ ~local[id].exists}
      replaced ==
        {id \in NoteIds :
           /\ cloudData[id].exists /\ local[id].exists
           /\ GreaterThan(cloudData[id].updatedAt, local[id].updatedAt)}
      kept ==
        {id \in NoteIds :
           /\ cloudData[id].exists /\ local[id].exists
           /\ ~GreaterThan(cloudData[id].updatedAt, local[id].updatedAt)
           /\ GreaterThan(local[id].updatedAt, cloudData[id].updatedAt)}
  IN [notes |-> [id \in NoteIds |->
                   IF id \in added \cup replaced
                     THEN cloudData[id] ELSE local[id]],
      syncedNotes |-> Cardinality(added \cup replaced),
      conflicts |-> Cardinality(kept)]

\* response.ok
Ok(answer) == answer.status >= 200 /\ answer.status <= 299

UploadSucceeded == [success |-> TRUE, message |-> "uploaded"]
UploadFailed == [success |-> FALSE, message |-> "upload failed"]
DownloadFailed == [success |-> FALSE, message |-> "download failed"]
SyncCompleted == [success |-> TRUE, message |-> "sync completed"]

\* Mutant: the download follows whatever the upload returned.
afterUpload_Regardless(uploadResult) == "uploaded"

\* sync, after `await this.uploadToCloud(...)`: return the upload's result if
\* it failed, go on to the download otherwise.
afterUpload(uploadResult) ==
  IF ~uploadResult.success THEN "idle" ELSE "uploaded"

\* sync(userId, token) up to the return of uploadToCloud: the table is read,
\* stringified with version = Date.now() and posted; `delivered` is false
\* when fetch rejects.
sync(userId, token, delivered) ==
  /\ cloudSync.pc = "idle"
  /\ LET data == JSON_stringify(notes)
         r == uploadRoute(syncDataStore.upload, token, userId, data, clock)
         answer == IF delivered THEN r.answer ELSE NetworkError("POST", userId)
         uploadResult == IF Ok(answer) THEN UploadSucceeded ELSE UploadFailed
     IN /\ syncDataStore' =
             IF delivered THEN [syncDataStore EXCEPT !.upload = r.store]
                          ELSE syncDataStore
        /\ httpResponse' = answer
        /\ acknowledged' = Acknowledge(answer, data)
        /\ cloudSync' =
             IF afterUpload(uploadResult) = "idle"
               THEN [NoSync EXCEPT !.requests = <<"upload">>,
                                   !.uploadResult = uploadResult,
                                   !.result = uploadResult]
               ELSE [NoSync EXCEPT !.pc = "uploaded", !.userId = userId,
                                   !.token = token,
                                   !.requests = <<"upload">>,
                                   !.uploadResult = uploadResult,
                                   !.result = uploadResult]
  /\ UNCHANGED <<notes, clock>>

\* sync from downloadFromCloud to its return: 404 is a success without a
\* merge, 200 is parsed and merged, anything else is a failure.
syncDownload(delivered) ==
  /\ cloudSync.pc = "uploaded"
  /\ LET answer ==
           IF delivered
             THEN downloadRoute(syncDataStore.download, cloudSync.token,
                                cloudSync.userId)
             ELSE NetworkError("GET", cloudSync.userId)
         m == mergeData(notes, JSON_parse(answer.data))
     IN /\ httpResponse' = answer
        /\ notes' = IF answer.status = 200 THEN m.notes ELSE notes
        /\ cloudSync' =
             [cloudSync EXCEPT
                !.pc = "idle", !.userId = Null, !.token = NoToken,
                !.requests = Append(@, "download"),
                !.result =
                  IF answer.status = 200 \/ answer.status = 404
                    THEN SyncCompleted ELSE DownloadFailed,
                !.writes = IF answer.status = 200 THEN m.syncedNotes ELSE 0]
  /\ UNCHANGED <<syncDataStore, acknowledged, clock>>

\* The requests are about the data of one user, A, and carry no token, a token
\* that does not verify, A's token or the token of another principal, B.
SyncUsers == {"A"}
Authorizations ==
  {NoToken, InvalidToken("A")} \cup {ValidToken(u) : u \in Users}

Post ==
  /\ \E authorization \in Authorizations, userId \in SyncUsers,
        data \in {EmptyData, JSON_stringify(notes)}, version \in 0..clock :
       POST(authorization, userId, data, version)
  /\ UNCHANGED <<outsideCloud, mergeVars>>
Get ==
  /\ \E authorization \in Authorizations, userId \in SyncUsers :
       GET(authorization, userId)
  /\ UNCHANGED <<outsideCloud, mergeVars>>
Delete ==
  /\ \E authorization \in Authorizations, userId \in SyncUsers :
       DELETE(authorization, userId)
  /\ UNCHANGED <<outsideCloud, mergeVars>>
\* The user of this device writes a note and later edits it.
WriteNote ==
  /\ createNote("n1", "x")
  /\ UNCHANGED <<outsideCloud, mergeVars>>
EditNote ==
  /\ updateNote("n1", "y")
  /\ UNCHANGED <<outsideCloud, mergeVars>>
ClientTick ==
  /\ clientTick
  /\ merged' = NoMerge
  /\ UNCHANGED outsideCloud
Sync ==
  /\ \E userId \in SyncUsers, token \in Authorizations, delivered \in BOOLEAN :
       sync(userId, token, delivered)
  /\ UNCHANGED <<outsideCloud, mergeVars>>
SyncDownload ==
  /\ \E delivered \in BOOLEAN : syncDownload(delivered)
  /\ UNCHANGED <<outsideCloud, mergeVars>>

CloudNext ==
  \/ Post
  \/ Get
  \/ Delete
  \/ WriteNote
  \/ EditNote
  \/ ClientTick
  \/ Sync
  \/ SyncDownload

\* ------------------------------------------------------------- mergeData
\* mergeData on its own: the local table is what createNote, updateNote and
\* earlier merges made it, and the cloud data is what JSON.parse makes of any
\* device's upload, every note with a string for its updatedAt.  `merged`
\* holds the last merge until the table or the clock changes again.
InCloudNotes ==
  {NoNote} \cup {Note(title, IsoString(t)) : title \in Titles, t \in 0..MaxClock}
InCloudData == [NoteIds -> InCloudNotes]

CreateNote ==
  /\ \E id \in NoteIds, title \in Titles : createNote(id, title)
  /\ merged' = NoMerge
  /\ UNCHANGED outsideCloud
UpdateNote ==
  /\ \E id \in NoteIds, title \in Titles : updateNote(id, title)
  /\ merged' = NoMerge
  /\ UNCHANGED outsideCloud

MergeData ==
  /\ \E cloudData \in InCloudData :
       LET m == mergeData(notes, cloudData)
       IN /\ notes' = m.notes
          /\ merged' =
               [ran |-> TRUE, before |-> notes, cloud |-> cloudData,
                after |-> m.notes, syncedNotes |-> m.syncedNotes,
                conflicts |-> m.conflicts]
  /\ UNCHANGED <<syncDataStore, acknowledged, httpResponse, clock, cloudSync>>
  /\ UNCHANGED outsideCloud

MergeNext ==
  \/ CreateNote
  \/ UpdateNote
  \/ ClientTick
  \/ MergeData

\* ============================================================== auto sync
\* AutoSyncService (services/AutoSyncService.ts): the network events of the
\* window, its public methods, and cloudSyncService.sync underneath.
\*
\* At most MaxQueue entries are put on a queue.
MaxQueue == 2

\* addToSyncQueue's item
SyncQueueItem(operation, timestamp) ==
  [operation |-> operation, status |-> "pending", timestamp |-> timestamp,
   retryCount |-> 0]

\* The offline operations of the model: an edit or the deletion of note n1.
OfflineOperation(type, timestamp) ==
  [type |-> type, entityId |-> "n1", data |-> "y", timestamp |-> timestamp]

AutoInit ==
  autoSync =
    [isOnline |-> TRUE, currentUserId |-> Null, syncQueue |-> <<>>,
     offlineQueue |-> <<>>]

\* getToken: localStorage's token, here that of the current user
getToken == ValidToken(autoSync.currentUserId)

setCurrentUserId(userId) ==
  /\ autoSync' = [autoSync EXCEPT !.currentUserId = userId]
  /\ UNCHANGED cloudVars

\* addToSyncQueue(operation, data)
addToSyncQueue(a, operation) ==
  [a EXCEPT !.syncQueue = Append(@, SyncQueueItem(operation, clock))]

\* triggerSync up to its return or to the return of cloudSyncService.sync's
\* upload: nothing without a user, the queue when offline, a sync otherwise.
triggerSync(delivered) ==
  /\ autoSync.currentUserId # Null
  /\ IF ~autoSync.isOnline
       THEN /\ Len(autoSync.syncQueue) < MaxQueue
            /\ autoSync' = addToSyncQueue(autoSync, "sync")
            /\ UNCHANGED cloudVars
       ELSE /\ sync(autoSync.currentUserId, getToken, delivered)
            /\ UNCHANGED autoSync

\* triggerSync from the return of cloudSyncService.sync's download: a
\* successful sync empties the offline queue.
triggerSyncReturns(delivered) ==
  /\ syncDownload(delivered)
  /\ autoSync' =
       IF cloudSync'.result.success
         THEN [autoSync EXCEPT !.offlineQueue = <<>>] ELSE autoSync

\* addToOfflineQueue(operation), config.offlineQueue being true
addToOfflineQueue(type) ==
  /\ Len(autoSync.offlineQueue) < MaxQueue
  /\ autoSync' =
       [autoSync EXCEPT
          !.offlineQueue = Append(@, OfflineOperation(type, clock))]
  /\ UNCHANGED cloudVars

\* processOfflineQueue, called with isOnline true: every 'update' is applied
\* to the local table (updateNote of a missing note throws and is caught),
\* the case 'delete' is empty, and the queue is emptied.
processOfflineQueue(a) ==
  IF a.offlineQueue = <<>>
    THEN /\ autoSync' = a
         /\ UNCHANGED notes
    ELSE /\ autoSync' = [a EXCEPT !.offlineQueue = <<>>]
         /\ notes' =
              IF /\ notes["n1"].exists
                 /\ \E k \in DOMAIN a.offlineQueue :
                      a.offlineQueue[k].type = "update"
                THEN [notes EXCEPT !["n1"] = Note("y", DateValue(clock))]
                ELSE notes

\* window 'online': isOnline = true, then processOfflineQueue().  The sync
\* queue is not looked at.
online ==
  /\ processOfflineQueue([autoSync EXCEPT !.isOnline = TRUE])
  /\ UNCHANGED <<syncDataStore, acknowledged, httpResponse, clock, cloudSync>>

\* window 'offline'
offline ==
  /\ autoSync' = [autoSync EXCEPT !.isOnline = FALSE]
  /\ UNCHANGED cloudVars

\* processSyncQueue takes the pending items of the sync queue, runs each
\* against the cloud and marks it completed or failed.  It is private, and its
\* only call is in the retry timer it arms itself: no event handler, timer or
\* public method reaches it, so it is not a step of the service.
Pending(a) ==
  {k \in DOMAIN a.syncQueue : a.syncQueue[k].status = "pending"}

SetCurrentUserId ==
  /\ \E userId \in SyncUsers : setCurrentUserId(userId)
  /\ UNCHANGED outsideAuto
TriggerSync ==
  /\ \E delivered \in BOOLEAN : triggerSync(delivered)
  /\ UNCHANGED outsideAuto
TriggerSyncReturns ==
  /\ \E delivered \in BOOLEAN : triggerSyncReturns(delivered)
  /\ UNCHANGED outsideAuto
AddToOfflineQueue ==
  /\ \E type \in {"update", "delete"} : addToOfflineQueue(type)
  /\ UNCHANGED outsideAuto
Online ==
  /\ online
  /\ UNCHANGED outsideAuto
Offline ==
  /\ offline
  /\ UNCHANGED outsideAuto

AutoNext ==
  \/ SetCurrentUserId
  \/ TriggerSync
  \/ TriggerSyncReturns
  \/ AddToOfflineQueue
  \/ Online
  \/ Offline
  \/ WriteNote
  \/ ClientTick

\* ========================================================== database sync
\* The PostgreSQL variants of the sync routes (/api/sync/db-upload,
\* db-download, db-version, db-clear) on the table userSyncData, one row per
\* userId.  A route is suspended at every `await` on prisma, so two requests
\* interleave between the read and the write of db-upload.
\*
\* NumUploads db-upload requests can be in flight at a time, with versions
\* from 1 to MaxVersion.
NumUploads == 2
MaxVersion == 2
DbSlots == 1..NumUploads

\* A row of userSyncData; data is the number of the payload, 0 for none.
NoRow == [exists |-> FALSE, data |-> 0, version |-> 0]
Row(data, version) == [exists |-> TRUE, data |-> data, version |-> version]

DbAnswer(route, userId, status, data, version) ==
  [route |-> route, userId |-> userId, status |-> status, data |-> data,
   version |-> version]
NoDbAnswer == DbAnswer("none", Null, 0, 0, 0)

\* A db-upload request: its position, its body while it runs, the row
\* findUnique returned, and its response status once it has ended.
NoDbRequest ==
  [pc |-> "idle", userId |-> Null, data |-> 0, version |-> 0,
   existingData |-> NoRow, status |-> 0]

DbInit ==
  /\ userSyncData = [u \in Users |-> NoRow]
  /\ dbRequests = [p \in DbSlots |-> NoDbRequest]
  /\ dbResponse = NoDbAnswer

\* authenticateRequest: the payload of a header whose token verifies, null
\* for a missing header and for a token that does not verify.
authenticateRequest(authHeader) ==
  IF authHeader.state = "absent"
    THEN [ok |-> FALSE, userId |-> Null]
    ELSE verifyToken(authHeader)

\* db-upload before it touches the table: the status it answers with, 0 if
\* it goes on to findUnique.
dbUploadChecks(authHeader, requestUserId, data, version) ==
  LET authenticated == authenticateRequest(authHeader)
  IN IF ~authenticated.ok THEN 401
     ELSE IF requestUserId # authenticated.userId THEN 403
     ELSE IF data = 0 \/ version = 0 THEN 400
     ELSE 0

\* db-upload from its start to the return of prisma.userSyncData.findUnique
dbUploadBegin(p, authHeader, requestUserId, data, version) ==
  /\ dbRequests[p].pc \in {"idle", "done"}
  /\ LET status == dbUploadChecks(authHeader, requestUserId, data, version)
     IN dbRequests' =
          [dbRequests EXCEPT
             ![p] = IF status # 0
                      THEN [NoDbRequest EXCEPT !.pc = "done",
                                               !.status = status]
                      ELSE [pc |-> "read", userId |-> requestUserId,
                            data |-> data, version |-> version,
                            existingData |-> userSyncData[requestUserId],
                            status |-> 0]]
  /\ UNCHANGED <<userSyncData, dbResponse>>

\* db-upload from the version check to its response: 409 for an older
\* version; otherwise update (the row was found) or create (it was not).
\* update of a row deleted meanwhile and create of a row inserted meanwhile
\* throw, and the catch answers 500.
dbUploadWrite(p) ==
  /\ dbRequests[p].pc = "read"
  /\ LET request == dbRequests[p]
         userId == request.userId
         existingData == request.existingData
         conflict ==
           existingData.exists /\ existingData.version > request.version
         written ==
           /\ ~conflict
           /\ existingData.exists = userSyncData[userId].exists
     IN /\ userSyncData' =
             IF written
               THEN [userSyncData EXCEPT
                       ![userId] = Row(request.data, request.version)]
               ELSE userSyncData
        /\ dbRequests' =
             [dbRequests EXCEPT
                ![p] = [NoDbRequest EXCEPT
                          !.pc = "done",
                          !.status = IF conflict THEN 409
                                     ELSE IF written THEN 200 ELSE 500]]
  /\ UNCHANGED dbResponse

\* GET /api/sync/db-download on the table
dbDownloadRoute(table, authHeader, requestUserId) ==
  LET authenticated == authenticateRequest(authHeader)
  IN IF ~authenticated.ok
       THEN DbAnswer("db-download", requestUserId, 401, 0, 0)
     ELSE IF requestUserId # authenticated.userId
       THEN DbAnswer("db-download", requestUserId, 403, 0, 0)
     ELSE IF ~table[authenticated.userId].exists
       THEN DbAnswer("db-download", requestUserId, 404, 0, 0)
     ELSE DbAnswer("db-download", requestUserId, 200,
                   table[authenticated.userId].data,
                   table[authenticated.userId].version)

\* GET /api/sync/db-version on the table
dbVersionRoute(table, authHeader, requestUserId) ==
  LET authenticated == authenticateRequest(authHeader)
  IN IF ~authenticated.ok
       THEN DbAnswer("db-version", requestUserId, 401, 0, 0)
     ELSE IF requestUserId # authenticated.userId
       THEN DbAnswer("db-version", requestUserId, 403, 0, 0)
     ELSE DbAnswer("db-version", requestUserId, 200, 0,
                   table[authenticated.userId].version)

\* DELETE /api/sync/db-clear on the table: the answer and the table afterwards
dbClearRoute(table, authHeader, requestUserId) ==
  LET authenticated == authenticateRequest(authHeader)
  IN IF ~authenticated.ok
       THEN [table |-> table,
             answer |-> DbAnswer("db-clear", requestUserId, 401, 0, 0)]
     ELSE IF requestUserId # authenticated.userId
       THEN [table |-> table,
             answer |-> DbAnswer("db-clear", requestUserId, 403, 0, 0)]
     ELSE [table |-> [table EXCEPT ![authenticated.userId] = NoRow],
           answer |-> DbAnswer("db-clear", requestUserId, 200, 0, 0)]

\* GET /api/sync/version on the map of its module
versionRoute(store, authorization, requestUserId) ==
  LET decoded == verifyToken(authorization)
  IN IF authorization.state = "absent"
       THEN DbAnswer("version", requestUserId, 401, 0, 0)
     ELSE IF ~decoded.ok
       THEN DbAnswer("version", requestUserId, 500, 0, 0)
     ELSE IF requestUserId # decoded.userId
       THEN DbAnswer("version", requestUserId, 403, 0, 0)
     ELSE DbAnswer("version", requestUserId, 200, 0,
                   store[decoded.userId].version)

dbDownload(authHeader, requestUserId) ==
  /\ dbResponse' = dbDownloadRoute(userSyncData, authHeader, requestUserId)
  /\ UNCHANGED <<userSyncData, dbRequests>>

dbVersion(authHeader, requestUserId) ==
  /\ dbResponse' = dbVersionRoute(userSyncData, authHeader, requestUserId)
  /\ UNCHANGED <<userSyncData, dbRequests>>

dbClear(authHeader, requestUserId) ==
  LET r == dbClearRoute(userSyncData, authHeader, requestUserId)
  IN /\ userSyncData' = r.table
     /\ dbResponse' = r.answer
     /\ UNCHANGED dbRequests

DbUploadBegin ==
  /\ \E p \in DbSlots, authHeader \in Authorizations, userId \in SyncUsers,
        version \in 0..MaxVersion :
       \E data \in {0, p} :
         dbUploadBegin(p, authHeader, userId, data, version)
  /\ UNCHANGED outsideDb
DbUploadWrite ==
  /\ \E p \in DbSlots : dbUploadWrite(p)
  /\ UNCHANGED outsideDb
DbDownload ==
  /\ \E authHeader \in Authorizations, userId \in SyncUsers :
       dbDownload(authHeader, userId)
  /\ UNCHANGED outsideDb
DbVersion ==
  /\ \E authHeader \in Authorizations, userId \in SyncUsers :
       dbVersion(authHeader, userId)
  /\ UNCHANGED outsideDb
DbClear ==
  /\ \E authHeader \in Authorizations, userId \in SyncUsers :
       dbClear(authHeader, userId)
  /\ UNCHANGED outsideDb

DbNext ==
  \/ DbUploadBegin
  \/ DbUploadWrite
  \/ DbDownload
  \/ DbVersion
  \/ DbClear

\* ============================================================= sync queue
\* AutoSyncService.processSyncQueue on its own: calls of the method, the
\* items it runs and the retry timers it arms.  An invocation walks the array
\* that this.syncQueue was when its loop began; filter() replaces
\* this.syncQueue by a new array and leaves the item objects as they are.
\* Items are put on the queue between invocations, at most MaxQueue of them,
\* and at most NumRuns invocations are under way at a time.
NumRuns == 2
maxRetries == 3
ItemIds == 1..MaxQueue
RunIds == 1..NumRuns

NoItem == [status |-> "none", retryCount |-> 0, executions |-> 0]
NoRun == [pc |-> "idle", list |-> <<>>, i |-> 0]

QueueInit ==
  queue = [syncQueue |-> <<>>, items |-> [id \in ItemIds |-> NoItem],
           timers |-> {}, runs |-> [r \in RunIds |-> NoRun]]

\* Array.prototype.filter
filter(array, Keep(_)) == SelectSeq(array, Keep)

\* addToSyncQueue: a new pending item at the end of the queue
pushItem ==
  /\ \A r \in RunIds : queue.runs[r].pc = "idle"
  /\ \E id \in ItemIds :
       /\ queue.items[id].status = "none"
       /\ \A other \in ItemIds : other < id => queue.items[other].status # "none"
       /\ queue' =
            [queue EXCEPT
               !.items[id] = [NoItem EXCEPT !.status = "pending"],
               !.syncQueue = Append(@, id)]

\* processSyncQueue is entered: nothing to do for an empty queue, otherwise
\* the loop begins on the current array.
enter(q, r) ==
  IF q.syncQueue = <<>> THEN q
  ELSE [q EXCEPT !.runs[r] = [pc |-> "loop", list |-> q.syncQueue, i |-> 1]]

\* A caller invokes processSyncQueue.
processSyncQueue(r) ==
  /\ \A s \in RunIds : queue.runs[s].pc = "idle"
  /\ queue.syncQueue # <<>>
  /\ queue' = enter(queue, r)

\* The loop of invocation r reaches its next item: an item that is not
\* pending is skipped, a pending one is marked in-progress and its operation
\* awaited; after the last item the completed and failed items are filtered
\* out of this.syncQueue.
loopStep(r) ==
  /\ queue.runs[r].pc = "loop"
  /\ LET run == queue.runs[r]
         Waiting(id) == queue.items[id].status \in {"pending", "in-progress"}
     IN IF run.i > Len(run.list)
          THEN queue' = [queue EXCEPT
                           !.syncQueue = filter(@, Waiting),
                           !.runs[r] = NoRun]
        ELSE IF queue.items[run.list[run.i]].status # "pending"
          THEN queue' = [queue EXCEPT !.runs[r].i = @ + 1]
        ELSE queue' = [queue EXCEPT
                         !.items[run.list[run.i]].status = "in-progress",
                         !.runs[r].pc = "awaiting"]

\* The awaited operation of invocation r settles: it returned success, it
\* returned failure (the retry count goes up; below 3 a timer is armed, at 3
\* the item is filtered out), or it threw (getToken without a token).
settle(r, result) ==
  /\ queue.runs[r].pc = "awaiting"
  /\ LET run == queue.runs[r]
         id == run.list[run.i]
         item == queue.items[id]
         retryCount == item.retryCount + 1
         Others(other) == other # id
         next == [run EXCEPT !.pc = "loop", !.i = @ + 1]
     IN queue' =
          IF result = "success"
            THEN [queue EXCEPT
                    !.items[id] = [item EXCEPT !.status = "completed",
                                               !.executions = @ + 1],
                    !.runs[r] = next]
          ELSE IF result = "thrown"
            THEN [queue EXCEPT
                    !.items[id] = [item EXCEPT !.status = "failed",
                                               !.executions = @ + 1],
                    !.runs[r] = next]
          ELSE [queue EXCEPT
                  !.items[id] = [status |-> "failed",
                                 retryCount |-> retryCount,
                                 executions |-> item.executions + 1],
                  !.timers = IF retryCount < maxRetries
                               THEN @ \cup {id} ELSE @,
                  !.syncQueue = IF retryCount < maxRetries
                                  THEN @ ELSE filter(@, Others),
                  !.runs[r] = next]

\* The retry timer of an item fires: the item is pending again and
\* processSyncQueue is invoked.
retryTimerFires(id, r) ==
  /\ id \in queue.timers
  /\ queue.runs[r].pc = "idle"
  /\ queue' =
       enter([queue EXCEPT !.timers = @ \ {id},
                           !.items[id].status = "pending"], r)

PushItem ==
  /\ pushItem
  /\ UNCHANGED outsideQueue
ProcessSyncQueue ==
  /\ \E r \in RunIds : processSyncQueue(r)
  /\ UNCHANGED outsideQueue
LoopStep ==
  /\ \E r \in RunIds : loopStep(r)
  /\ UNCHANGED outsideQueue
Settle ==
  /\ \E r \in RunIds, result \in {"success", "failure", "thrown"} :
       settle(r, result)
  /\ UNCHANGED outsideQueue
RetryTimerFires ==
  /\ \E id \in ItemIds, r \in RunIds : retryTimerFires(id, r)
  /\ UNCHANGED outsideQueue

QueueNext ==
  \/ PushItem
  \/ ProcessSyncQueue
  \/ LoopStep
  \/ Settle
  \/ RetryTimerFires

\* ================================================================ sync flag
\* CloudSyncService.syncStatus (src/src/services/CloudSyncService.ts): the
\* flag isSyncing and the error text, written by uploadToCloud,
\* downloadFromCloud and sync. The three are async methods of one object; the
\* timers and event handlers of AutoSyncService and the buttons of the sync
\* panel call them independently, so calls overlap at their awaits.
NumCalls == 2
CallIds == 1..NumCalls
Methods == {"uploadToCloud", "downloadFromCloud", "sync"}

\* A call: the method, where it stands, and the result of its last request.
\* at is "idle", "upload" or "download" (awaiting the answer of that request,
\* for sync inside the inner method) or, for sync, "afterUpload" or
\* "afterDownload" (the inner method has returned, sync has not resumed yet).
NotCalled == [method |-> Null, at |-> "idle", success |-> FALSE]

StatusInit ==
  /\ syncStatus = [isSyncing |-> FALSE, syncError |-> Null]
  /\ calls = [c \in CallIds |-> NotCalled]

InFlight == {c \in CallIds : calls[c].at # "idle"}

\* The call of a method, up to its first await. sync sets the flag and clears
\* the error, then calls uploadToCloud, which sets the flag again.
startOperation(c, method) ==
  /\ calls[c].at = "idle"
  /\ syncStatus' =
       [isSyncing |-> TRUE,
        syncError |-> IF method = "sync" THEN Null ELSE syncStatus.syncError]
  /\ calls' =
       [calls EXCEPT
          ![c] = [method |-> method,
                  at |-> IF method = "downloadFromCloud"
                           THEN "download" ELSE "upload",
                  success |-> FALSE]]

\* The request of uploadToCloud or downloadFromCloud is answered: the catch
\* block records the error of a failed one, the finally block clears the
\* flag, and the method returns, to its caller or to the sync that awaits it.
operationReturns(c, success) ==
  /\ calls[c].at \in {"upload", "download"}
  /\ syncStatus' =
       [isSyncing |-> FALSE,
        syncError |-> IF success THEN syncStatus.syncError ELSE "error"]
  /\ calls' =
       [calls EXCEPT
          ![c] = IF calls[c].method = "sync"
                   THEN [@ EXCEPT
                           !.at = IF @ = "upload"
                                    THEN "afterUpload" ELSE "afterDownload",
                           !.success = success]
                   ELSE NotCalled]

\* sync resumes after an inner method: after a successful upload it calls
\* downloadFromCloud, which sets the flag; otherwise it returns through its
\* finally block, which clears the flag.
syncResumes(c) ==
  /\ calls[c].at \in {"afterUpload", "afterDownload"}
  /\ IF calls[c].at = "afterUpload" /\ calls[c].success
       THEN /\ syncStatus' = [syncStatus EXCEPT !.isSyncing = TRUE]
            /\ calls' = [calls EXCEPT ![c].at = "download",
                                      ![c].success = FALSE]
       ELSE /\ syncStatus' = [syncStatus EXCEPT !.isSyncing = FALSE]
            /\ calls' = [calls EXCEPT ![c] = NotCalled]

StartOperation ==
  /\ \E c \in CallIds, method \in Methods : startOperation(c, method)
  /\ UNCHANGED outsideStatus
OperationReturns ==
  /\ \E c \in CallIds, success \in BOOLEAN : operationReturns(c, success)
  /\ UNCHANGED outsideStatus
SyncResumes ==
  /\ \E c \in CallIds : syncResumes(c)
  /\ UNCHANGED outsideStatus

StatusNext ==
  \/ StartOperation
  \/ OperationReturns
  \/ SyncResumes

\* ============================================================ engine start
\* SyncManager.initialize and SyncManager.disconnect (src/lib/sync): the
\* fields ydoc, idbProvider, wsProvider and userId of the one manager, and the
\* calls of initialize, which wait for IndexedDB between creating the
\* document and creating the WebSocket provider.
NumInits == 2
InitIds == 1..NumInits

\* engine.ydoc is 0 for null, else the number of the Y.Doc; wsProvider is the
\* room the provider was created for. docs and providers are history: the
\* initialize calls, begun since the last disconnect, that created one.
EngineInit ==
  /\ engine = [ydoc |-> 0, idbProvider |-> FALSE, wsProvider |-> Null,
               userId |-> Null, disconnecting |-> FALSE,
               docs |-> {}, providers |-> {}]
  /\ inits = [c \in InitIds |->
               [at |-> "idle", userId |-> Null, result |-> "none",
                current |-> FALSE]]

\* What the constructors do: "ok", or one of them throws (IndexedDB or the
\* WebSocket URL is not usable where the page runs).
Fates == {"ok", "throws"}

\* initialize(_userId, _token) up to its await: returns at once when a
\* document exists; else sets the fields, creates the document and the
\* IndexedDB persistence and waits for it.
initializeSync(c, userId, fate) ==
  /\ inits[c].at = "idle"
  /\ IF engine.ydoc # 0
       THEN /\ inits' = [inits EXCEPT
                           ![c] = [at |-> "idle", userId |-> userId,
                                   result |-> "returned", current |-> TRUE]]
            /\ UNCHANGED engine
       ELSE /\ engine' =
                 [engine EXCEPT !.userId = userId, !.ydoc = c,
                                !.idbProvider = (fate = "ok"),
                                !.docs = @ \cup {c}]
            /\ inits' = [inits EXCEPT
                           ![c] = [at |-> IF fate = "ok" THEN "synced" ELSE "idle",
                                   userId |-> userId,
                                   result |-> IF fate = "ok" THEN "none" ELSE "thrown",
                                   current |-> TRUE]]

\* initialize after the await: new WebsocketProvider(wsUrl, roomName,
\* this.ydoc, ...) with the room of the call's own _userId; it throws on a
\* document that a disconnect has set to null meanwhile.
initializeResumes(c, fate) ==
  /\ inits[c].at = "synced"
  /\ IF fate = "ok" /\ engine.ydoc # 0
       THEN /\ engine' =
                 [engine EXCEPT
                    !.wsProvider = DefaultRoom(inits[c].userId),
                    !.providers = IF inits[c].current THEN @ \cup {c} ELSE @]
            /\ inits' = [inits EXCEPT ![c].at = "idle",
                                      ![c].result = "returned"]
       ELSE /\ inits' = [inits EXCEPT ![c].at = "idle",
                                      ![c].result = "thrown"]
            /\ UNCHANGED engine

\* disconnect() up to its await: the provider is destroyed; without an
\* IndexedDB persistence there is no await and the call runs to its end.
disconnectSync ==
  /\ ~engine.disconnecting
  /\ engine' =
       IF engine.idbProvider
         THEN [engine EXCEPT !.wsProvider = Null, !.disconnecting = TRUE]
         ELSE [engine EXCEPT !.wsProvider = Null, !.ydoc = 0, !.userId = Null,
                             !.docs = {}, !.providers = {}]
  /\ inits' = IF engine.idbProvider THEN inits
              ELSE [c \in InitIds |-> [inits[c] EXCEPT !.current = FALSE]]

\* disconnect() after idbProvider.destroy(): the persistence and the
\* document are destroyed and set to null.
disconnectResumes ==
  /\ engine.disconnecting
  /\ engine' =
       [engine EXCEPT !.idbProvider = FALSE, !.ydoc = 0, !.userId = Null,
                      !.disconnecting = FALSE, !.docs = {}, !.providers = {}]
  /\ inits' = [c \in InitIds |-> [inits[c] EXCEPT !.current = FALSE]]

InitializeSync ==
  /\ \E c \in InitIds, userId \in Users, fate \in Fates :
       initializeSync(c, userId, fate)
  /\ UNCHANGED outsideEngine
InitializeResumes ==
  /\ \E c \in InitIds, fate \in Fates : initializeResumes(c, fate)
  /\ UNCHANGED outsideEngine
DisconnectSync ==
  /\ disconnectSync
  /\ UNCHANGED outsideEngine
DisconnectResumes ==
  /\ disconnectResumes
  /\ UNCHANGED outsideEngine

EngineNext ==
  \/ InitializeSync
  \/ InitializeResumes
  \/ DisconnectSync
  \/ DisconnectResumes

\* ========================================================== specifications
Connect ==
  /\ \E c \in Conns, r \in InRequests : handleConnection(c, r)
  /\ UNCHANGED outsideRelay
Resume ==
  /\ \E c \in Conns : handleConnectionResume(c)
  /\ UNCHANGED outsideRelay
Message ==
  /\ \E c \in Conns, data \in InFrames : handleMessage(c, data)
  /\ UNCHANGED outsideRelay
Close ==
  /\ \E c \in Conns : socketClose(c)
  /\ UNCHANGED outsideRelay
Heartbeat ==
  /\ startHeartbeat
  /\ UNCHANGED outsideRelay
PeerStops ==
  /\ \E c \in Conns : peerStops(c)
  /\ UNCHANGED outsideRelay

RelayNext ==
  \/ Connect
  \/ Resume
  \/ Message
  \/ Close
  \/ Heartbeat
  \/ PeerStops

vars == <<relayVars, shareVars, authVars, cipherVars, fileVars, otherVars>>
Init ==
  /\ RelayInit /\ ShareInit /\ AuthInit /\ CipherInit /\ FileInit
  /\ DownloadInit /\ ReconnectInit /\ SessionInit
  /\ CloudInit /\ AutoInit
  /\ DbInit /\ QueueInit /\ StatusInit /\ EngineInit

\* The relay
Spec == Init /\ [][RelayNext]_vars

\* The share endpoints
ShareSpec == Init /\ [][ShareNext]_vars

\* Registration and sign-in
AuthSpec == Init /\ [][AuthNext]_vars

\* The encryption layer over untrusted storage
CipherSpec == Init /\ [][CipherNext]_vars
FileSpec == Init /\ [][FileNext]_vars
DownloadSpec == Init /\ [][DownloadNext]_vars
ReconnectSpec == Init /\ [][ReconnectNext]_vars
SessionSpec == Init /\ [][SessionNext]_vars
CloudSpec == Init /\ [][CloudNext]_vars
MergeSpec == Init /\ [][MergeNext]_vars

DbSpec == Init /\ [][DbNext]_vars
QueueSpec == Init /\ [][QueueNext]_vars

\* The sync flag of the cloud sync service
StatusSpec == Init /\ [][StatusNext]_vars

\* The start and the stop of the sync engine
EngineSpec == Init /\ [][EngineNext]_vars

\* Every sync endpoint, in memory and on the database, one db-upload at a
\* time.
DbUploadAlone ==
  /\ \E authHeader \in Authorizations, userId \in SyncUsers,
        data \in {0, 1}, version \in 0..MaxVersion :
       dbUploadBegin(1, authHeader, userId, data, version)
  /\ UNCHANGED outsideDb
ApiNext ==
  \/ Post
  \/ Get
  \/ Delete
  \/ ClientTick
  \/ DbUploadAlone
  \/ DbUploadWrite
  \/ DbDownload
  \/ DbVersion
  \/ DbClear
ApiSpec == Init /\ [][ApiNext]_vars

AutoSpec == Init /\ [][AutoNext]_vars

\* Auto sync: the runtime delivers every event and runs every call that stays
\* possible.
AutoFairSpec ==
  /\ Init /\ [][AutoNext]_vars
  /\ WF_vars(TriggerSync) /\ WF_vars(TriggerSyncReturns) /\ WF_vars(Online)

\* Timers fire and a settled promise resumes its handler; what the devices
\* do (connect, send, close, stop) is under no obligation.
FairSpec ==
  /\ Spec
  /\ WF_vars(Heartbeat)
  /\ \A c \in Conns : WF_vars(handleConnectionResume(c) /\ UNCHANGED outsideRelay)

\* ------------------------------------------------------- claim vocabulary
Member(c) == \E n \in RoomNames : c \in rooms[n].clients
OnlyErrors(c) == \A i \in 1..Len(sent[c]) : sent[c][i].type = "ERROR"
\* The token verifies and belongs to the userId the connection claims.
Authentic(r) ==
  /\ r.token.state = "valid"
  /\ r.userId # Null
  /\ r.token.userId = r.userId
\* handleConnection returns for c in this step.
Settles(c) == pc[c] \in {"new", "verifying"} /\ pc'[c] \in {"joined", "rejected"}

\* C1: a connection whose verified principal differs from the owner of the
\* existing room it names is answered ERROR/AUTH_ERROR and closed (1003), the
\* room is left as it was, and from then on the connection is in no device
\* set and is handed no further frame (no snapshot, no forwarded frame).
NamesForeignRoom(c) ==
  /\ pc[c] = "verifying"
  /\ Authentic(req[c])
  /\ rooms[RoomNameOf(req[c])].exists
  /\ rooms[RoomNameOf(req[c])].userId # req[c].userId
Denied(c) == pc[c] = "rejected" /\ closeCode[c] = 1003
C1_RoomIsolation ==
  [][\A c \in Conns :
       /\ (NamesForeignRoom(c) /\ Settles(c)) =>
            /\ sent'[c] = <<ErrorFrame("AUTH_ERROR", "Access denied to this room")>>
            /\ Denied(c)'
            /\ readyState'[c] # "OPEN"
            /\ rooms' = rooms
       /\ Denied(c) => (Denied(c)' /\ sent'[c] = sent[c])
       /\ Denied(c)' => (~Member(c)' /\ OnlyErrors(c)')]_vars
C1_Witness ==
  \E c, d \in Conns :
    /\ Denied(c)
    /\ d \in rooms[RoomNameOf(req[c])].clients
    /\ Len(sent[d]) >= 3
    /\ sent[d][3].type = "BINARY"

\* C2: every member of a room's device set carries the userId of the room's
\* owner, and that userId is the principal of a token that verified.
C2_OwnerOnly ==
  \A n \in RoomNames : \A c \in rooms[n].clients :
    /\ rooms[n].exists
    /\ rooms[n].name = n
    /\ wsAttr[c].roomName = n
    /\ wsAttr[c].userId = rooms[n].userId
    /\ req[c].token.state = "valid"
    /\ req[c].token.userId = wsAttr[c].userId
C2_Witness ==
  \E n \in RoomNames : Cardinality(rooms[n].clients) = 2 /\ n # DefaultRoom(rooms[n].userId)

\* C3: a connection without token, without userId, with a token that does
\* not verify or with a token of another principal is answered one
\* ERROR/AUTH_ERROR frame and closed (1008); it creates no room, joins no
\* device set and is handed no CONNECTED frame and no binary frame.
C3_AuthFailure ==
  [][\A c \in Conns :
       /\ (~Authentic(req'[c]) /\ Settles(c)) =>
            /\ pc'[c] = "rejected"
            /\ closeCode'[c] = 1008
            /\ readyState'[c] # "OPEN"
            /\ Len(sent'[c]) = 1
            /\ sent'[c][1].type = "ERROR"
            /\ sent'[c][1].code = "AUTH_ERROR"
            /\ rooms' = rooms
       /\ (pc[c] # "new" /\ ~Authentic(req[c])) =>
            /\ pc'[c] \in {"verifying", "rejected"}
            /\ ~Member(c)'
            /\ OnlyErrors(c)'
            /\ Len(sent'[c]) <= 1]_vars
C3_Witness ==
  /\ \E c \in Conns : pc[c] = "rejected" /\ req[c].token.state = "invalid"
  /\ \E c \in Conns : pc[c] = "rejected" /\ req[c].token = NoToken
  /\ \E c \in Conns :
       /\ pc[c] = "rejected"
       /\ req[c].token.state = "valid"
       /\ req[c].userId # Null
       /\ req[c].token.userId # req[c].userId

\* C4: every non-empty frame a joined device sends is applied to the room's
\* document and handed, unmodified and once, to every other open member of
\* that room, and to nobody else (not the sender, not another room).
Forwarded(c, data) ==
  LET n == wsAttr[c].roomName
  IN /\ encodeStateAsUpdate(rooms'[n].doc)
          = encodeStateAsUpdate(rooms[n].doc \cup UpdateOps(data))
     /\ \A d \in Conns :
          sent'[d] =
            IF d \in rooms[n].clients /\ d # c /\ readyState[d] = "OPEN"
              THEN Append(sent[d], BinaryFrame(data))
              ELSE sent[d]
C4_ForwardEveryFrame ==
  [][\A c \in Conns, data \in InFrames :
       (handleMessage(c, data) /\ Len(data) > 0) => Forwarded(c, data)]_vars

\* C5: a closed connection is in no device set, and every room of the map
\* has a member whose connection is live.
C5_ClosedLeavesRoom ==
  /\ \A c \in Conns : readyState[c] = "CLOSED" => ~Member(c)
  /\ \A n \in RoomNames :
       rooms[n].exists => \E c \in rooms[n].clients : readyState[c] = "OPEN"

\* C6: a member of a device set that has stopped responding is eventually
\* removed from the device set.
C6_DeadPeerRemoved ==
  \A c \in Conns : (dead[c] /\ Member(c)) ~> ~Member(c)

\* C7: no device set exceeds maxRoomSize; an authentic owner's join of a
\* room that is at the ceiling is answered ERROR "Room is full" and closed
\* (1013), and leaves the rooms as they were.
JoinsFullRoom(c) ==
  /\ pc[c] = "verifying"
  /\ Authentic(req[c])
  /\ rooms[RoomNameOf(req[c])].exists
  /\ rooms[RoomNameOf(req[c])].userId = req[c].userId
  /\ Cardinality(rooms[RoomNameOf(req[c])].clients) >= maxRoomSize
C7_RoomCapacity ==
  [][/\ \A n \in RoomNames : Cardinality(rooms'[n].clients) <= maxRoomSize
     /\ \A c \in Conns :
          (JoinsFullRoom(c) /\ Settles(c)) =>
            /\ sent'[c] = <<ErrorFrame("SYNC_ERROR", "Room is full")>>
            /\ closeCode'[c] = 1013
            /\ pc'[c] = "rejected"
            /\ readyState'[c] # "OPEN"
            /\ rooms' = rooms]_vars
C7_Witness ==
  \E c \in Conns :
    /\ closeCode[c] = 1013
    /\ Cardinality(rooms[RoomNameOf(req[c])].clients) = maxRoomSize

\* C8: at a join the device is handed exactly CONNECTED and then the
\* snapshot, the snapshot holds the operations of every frame applied to the
\* room before the join, and nothing was handed to the device before.
AppliedBefore(n) == IF rooms[n].exists THEN applied[n] ELSE {}
C8_SnapshotOnJoin ==
  [][\A c \in Conns :
       /\ pc'[c] \in {"new", "verifying"} => sent'[c] = <<>>
       /\ (pc[c] = "verifying" /\ pc'[c] = "joined") =>
            LET n == RoomNameOf(req[c])
            IN /\ Len(sent'[c]) = 2
               /\ sent'[c][1] = ConnectedFrame(n)
               /\ sent'[c][2].type = "BINARY"
               /\ IsUpdate(sent'[c][2].data)
               /\ UpdateOps(sent'[c][2].data)
                    = UNION {UpdateOps(f) : f \in AppliedBefore(n)}]_vars
C8_Witness ==
  \E c \in Conns :
    /\ pc[c] = "joined"
    /\ Len(sent[c]) >= 2
    /\ sent[c][2].type = "BINARY"
    /\ UpdateOps(sent[c][2].data) = Ops

\* C9: every ERROR frame the relay sends reports an authentication, an
\* authorization or a capacity failure; none reports on a frame's content.
ConnectionErrors ==
  {ErrorFrame("AUTH_ERROR", "Missing authentication credentials"),
   ErrorFrame("AUTH_ERROR", "Token userId mismatch"),
   ErrorFrame("AUTH_ERROR", "Invalid token"),
   ErrorFrame("AUTH_ERROR", "Access denied to this room"),
   ErrorFrame("SYNC_ERROR", "Room is full")}
C9_NoPayloadErrors ==
  \A c \in Conns : \A i \in 1..Len(sent[c]) :
    sent[c][i].type = "ERROR" => sent[c][i] \in ConnectionErrors

\* ------------------------------------------------------------ share claims
Redeemed(i) == {g \in Gets : gid[g] = i /\ res[g].status = 200}

\* C10: of the GET requests for a share with use limit m at most m are
\* answered with the ciphertext, and the stored accessCount never exceeds m.
C10_QuotaHolds ==
  \A i \in ShareIds :
    (shares[i].exists /\ shares[i].maxAccessCount # Unset) =>
      /\ Cardinality(Redeemed(i)) <= shares[i].maxAccessCount
      /\ shares[i].accessCount <= shares[i].maxAccessCount

\* C11: a GET whose share carries an expiresAt earlier than the server's
\* clock at the check is answered 410 "Share expired" with no ciphertext,
\* whatever accessCount and maxAccessCount are, and the stored record (its
\* accessCount included) stays as it was.
ExpiredResponse ==
  [status |-> 410, error |-> "Share expired", encryptedData |-> 0]
C11_ExpiredRejected ==
  [][\A g \in Gets :
       (/\ gpc[g] = "found" /\ gpc'[g] # "found"
        /\ share[g].exists
        /\ share[g].expiresAt # Unset
        /\ share[g].expiresAt < now)
       => /\ gpc'[g] = "done"
          /\ res'[g] = ExpiredResponse
          /\ shares' = shares]_vars
\* An expired share whose limit is also used up: the answer names the expiry.
C11_Witness ==
  \E g \in Gets :
    /\ res[g] = ExpiredResponse
    /\ share[g].maxAccessCount # Unset
    /\ share[g].accessCount >= share[g].maxAccessCount
    /\ shares[gid[g]] = share[g]

\* C12: a DELETE by the principal who created the share is answered with
\* success and the record is gone.
C12_CreatorRevokes ==
  \A r \in Revokes :
    (/\ revokes[r].pc = "done"
     /\ revokes[r].share.exists
     /\ revokes[r].userId = creator[revokes[r].id])
    => /\ revokes[r].status = 200
       /\ ~shares[revokes[r].id].exists

\* C13: no request sent to the server and no stored record holds a share
\* key in any field; the keys are in the hashes of the links clients hold.
RequestValues(q) ==
  {q.param, q.encryptedData, q.iv, q.expiresAt, q.maxAccessCount}
RecordValues(sh) ==
  {sh.encryptedData, sh.createdAt, sh.expiresAt, sh.accessCount,
   sh.maxAccessCount}
C13_KeyStaysInFragment ==
  /\ \A q \in wire : RequestValues(q) \cap ShareKeys = {}
  /\ \A i \in ShareIds : RecordValues(shares[i]) \cap ShareKeys = {}
  /\ \A g \in Gets : gid[g] \notin ShareKeys
  /\ \A r \in Revokes : revokes[r].id \notin ShareKeys
\* A link was made, its note fetched and a revocation sent, and the link
\* still carries the key.
C13_Witness ==
  /\ \E url \in links : parseShareURL(url).shareKey = <<exportShareKey(1)>>
  /\ \E q \in wire : q.method = "POST"
  /\ \E q \in wire : q.method = "DELETE"
  /\ \E g \in Gets : res[g].status = 200

\* ----------------------------------------------------------- crypto claims
\* C14: the auth proof stored for a user is not a spelling of the master key
\* the same password and salt derive: the bytes its hex digits spell differ
\* from the key's raw bytes.
C14_AuthProofIsNotKey ==
  \A e \in InEmails : \A pw \in Passwords :
    (userDb[e].exists /\ userDb[e].authHash = deriveAuthHash(pw, userDb[e].salt))
    => hexToBuffer(userDb[e].authHash)
         # deriveKeyFromPassword(pw, userDb[e].salt).raw

\* C15: no field of a request registerUser or loginUser sent holds a
\* password or the raw bytes of a master key.
AuthSecrets ==
  InPasswords
    \cup {deriveKeyFromPassword(pw, salt).raw : pw \in Passwords, salt \in Salts}
C15_NoSecretSent ==
  \A q \in authSent : \A f \in q.body : f.value \notin AuthSecrets

\* C16: decrypting an unaltered envelope with the key that made it, asking
\* for the kind of value that went in, returns exactly that value.
Unaltered ==
  stored.envelope = encryptData(stored.data, stored.key, stored.envelope.iv)
C16_RoundTrip ==
  (/\ outcome.called
   /\ Unaltered
   /\ outcome.key = stored.key
   /\ outcome.asString = (stored.data.type = "string"))
  => outcome.result = Returned(stored.data)

\* C17: decrypting an envelope whose ciphertext or tag was altered, or with
\* another key than the one that made it, throws and returns nothing.
C17_TamperFailsClosed ==
  (outcome.called /\ (~Unaltered \/ outcome.key # stored.key))
  => outcome.result = Thrown("Failed to decrypt data")
\* A non-empty plaintext whose envelope was altered, decrypted with the
\* right key.
C17_Witness ==
  /\ outcome.called
  /\ ~Unaltered
  /\ outcome.key = stored.key
  /\ stored.data.units # <<>>
  /\ outcome.result.status = "thrown"

\* ------------------------------------------------------- attachment claims
\* decryptChunk(encryptedData, key, iv)
decryptChunk(encryptedData, key, iv) ==
  subtleDecrypt(key, base64ToArrayBuffer(iv, "strict").bytes,
                base64ToArrayBuffer(encryptedData, "strict").bytes)

\* The store holds, under the chunk's locator, the bytes the chunk records
FullyWritten(chunk) ==
  \E o \in s3 :
    /\ o.s3Key = chunk.s3Key
    /\ arrayBufferToBase64(o.body) = chunk.encryptedData

C19_UploadFailsOnlyWithStore ==
  (upload.pc = "thrown" /\ cryptoKey # NoFileKey)
  => upload.error \in {"Failed to upload chunk to S3", "TypeError"}

Intact(k) ==
  \E o \in s3 :
    /\ o.s3Key = download.attachment.encryptedChunks[k].s3Key
    /\ decryptChunk(arrayBufferToBase64(o.body), download.fileKey,
                    download.attachment.encryptedChunks[k].iv).ok

ProgressInOrder(progress, n, begun, returned) ==
  /\ \A j \in 1..Len(progress) :
       /\ progress[j].totalChunks = n
       /\ progress[j].uploadedChunks = j - 1
       /\ progress[j].status = IF j = n + 1 THEN "completed" ELSE "uploading"
  /\ \A j \in 1..(Len(progress) - 1) :
       progress[j].uploadedChunks < progress[j + 1].uploadedChunks
  /\ Len(progress) = begun + (IF returned THEN 1 ELSE 0)
  /\ returned => progress[Len(progress)] = [uploadedChunks |-> n,
                                            totalChunks |-> n,
                                            status |-> "completed"]
WrongPassword ==
  /\ authCall.op = "login"
  /\ userDb[authCall.email].exists
  /\ userDb[authCall.email].authHash
       # deriveAuthHash(authCall.password, userDb[authCall.email].salt)

\* C24: loginUser reports a wrong password, and nothing else, with the code
\* INVALID_PASSWORD and its message; an unreachable or failing server is
\* reported with another code and another message.
C24_WrongPasswordDistinct ==
  authCall.op = "login"
  => /\ WrongPassword <=> authResult.code = "INVALID_PASSWORD"
     /\ WrongPassword <=> authResult.message = "wrong password"
     /\ (userDb[authCall.email].exists /\ ~WrongPassword
           /\ authCall.response # "success")
        => /\ ~authResult.success
           /\ authResult.code \notin {"", "INVALID_PASSWORD"}
\* A registered user signed in with another password.
C24_Witness ==
  /\ WrongPassword
  /\ authResult = [success |-> FALSE, code |-> "INVALID_PASSWORD",
                   message |-> "wrong password", userId |-> <<>>]

\* -------------------------------------------------------- reconnect claims
\* C25: of the attempts made since the last successful connection each one
\* waited longer than the one before it, there are at most
\* maxReconnectAttempts of them, and a successful connection has set the
\* count to 0.
C25_BackoffGrows ==
  /\ \A j \in 1..(Len(syncManager.delays) - 1) :
       syncManager.delays[j] < syncManager.delays[j + 1]
  /\ syncManager.reconnectAttempts = Len(syncManager.delays)
  /\ syncManager.reconnectAttempts <= maxReconnectAttempts
  /\ syncManager.ws = "connected" => syncManager.reconnectAttempts = 0

\* ---------------------------------------------------------- session claims
\* C26: while a user is signed in (the token of a verified login is kept)
\* the key manager is initialized, and while nobody is signed in it holds
\* neither a master key nor a private key.
C26_KeysFollowSession ==
  /\ localStorage.token # <<>> => isInitialized
  /\ localStorage.token = <<>> => ~masterKey.exists /\ ~privateKey.exists

\* ------------------------------------------------------- cloud sync claims
\* C27: a download for user U that reaches the lookup while the service has
\* acknowledged an upload of U (and no clear of U since) is answered 200 with
\* the data of that upload.
C27_DownloadReturnsUpload ==
  (/\ httpResponse.method = "GET"
   /\ httpResponse.status \in {200, 404}
   /\ acknowledged[httpResponse.userId].exists)
    => /\ httpResponse.status = 200
       /\ httpResponse.data = acknowledged[httpResponse.userId].data

\* The instant an updatedAt denotes, whichever form it has.
Instant(note) == note.updatedAt.t

\* C28: after mergeData every note of the cloud data is held locally in the
\* version with the later updatedAt, the local one on a tie; conflicts is the
\* number of cloud notes whose local version was strictly later; and the
\* local notes absent from the cloud data are as they were.
C28_LastWriterWins ==
  merged.ran =>
    /\ \A id \in NoteIds :
         merged.cloud[id].exists =>
           merged.after[id] =
             IF /\ merged.before[id].exists
                /\ Instant(merged.before[id]) >= Instant(merged.cloud[id])
               THEN merged.before[id] ELSE merged.cloud[id]
    /\ merged.conflicts =
         Cardinality({id \in NoteIds :
                        /\ merged.cloud[id].exists /\ merged.before[id].exists
                        /\ Instant(merged.before[id]) >
                             Instant(merged.cloud[id])})
    /\ \A id \in NoteIds :
         ~merged.cloud[id].exists => merged.after[id] = merged.before[id]

\* C29: in every step of sync, the download request is issued only on top of
\* an upload that succeeded, and a run whose upload failed ends at once with
\* the upload's result, one request issued and the local table as it was.
C29_UploadBeforeDownload ==
  [][cloudSync' # cloudSync =>
       /\ Len(cloudSync'.requests) = 2 =>
            /\ cloudSync.requests = <<"upload">>
            /\ cloudSync.uploadResult.success
            /\ cloudSync'.requests = <<"upload", "download">>
       /\ Len(cloudSync'.requests) = 1 =>
            /\ cloudSync'.requests = <<"upload">>
            /\ cloudSync.pc = "idle"
            /\ ~cloudSync'.uploadResult.success =>
                 /\ cloudSync'.pc = "idle"
                 /\ cloudSync'.result = cloudSync'.uploadResult
                 /\ notes' = notes]_vars
\* A sync of a device that holds a note ended with a failed upload.
C29_Witness ==
  /\ cloudSync.requests = <<"upload">>
  /\ cloudSync.pc = "idle"
  /\ cloudSync.result = UploadFailed
  /\ notes["n1"].exists

\* -------------------------------------------------------- auto sync claims
\* C30: whenever the client is online with a sync waiting on the sync queue,
\* eventually no sync is waiting any more (the queued ones have been run),
\* unless the client goes offline again first.
C30_QueuedSyncExecuted ==
  (autoSync.isOnline /\ Pending(autoSync) # {})
    ~> (Pending(autoSync) = {} \/ ~autoSync.isOnline)

\* ------------------------------------------------- relay claims, continued
\* C31: the default room of a principal, while it exists, is owned by that
\* principal, and no connection of a principal to its own default room is
\* closed with 1003 (access denied).
C31_DefaultRoomIsOwn ==
  /\ \A u \in Users :
       rooms[DefaultRoom(u)].exists => rooms[DefaultRoom(u)].userId = u
  /\ \A c \in Conns :
       (/\ pc[c] = "rejected"
        /\ closeCode[c] = 1003)
         => RoomNameOf(req[c]) # DefaultRoom(req[c].userId)

\* ---------------------------------------------------- database sync claims
\* C32: in no step does the stored version of a user's row or map entry go
\* down while the row stays (only a clear removes it), and an upload answered
\* 409 carried a version below the stored one.
C32_VersionNeverDecreases ==
  [][/\ \A u \in Users :
          /\ (userSyncData[u].exists /\ userSyncData'[u].exists)
               => userSyncData'[u].version >= userSyncData[u].version
          /\ (syncDataStore.upload[u].exists /\ syncDataStore'.upload[u].exists)
               => syncDataStore'.upload[u].version >=
                    syncDataStore.upload[u].version
     /\ \A p \in DbSlots :
          (dbRequests[p].pc = "read" /\ dbRequests'[p].status = 409)
            => /\ userSyncData' = userSyncData
               /\ dbRequests[p].version < dbRequests[p].existingData.version
    ]_vars

\* A request whose token does not verify for the userId it names.
Foreign(authorization, userId) ==
  ~verifyToken(authorization).ok \/ verifyToken(authorization).userId # userId
Mismatched(authorization, userId) ==
  verifyToken(authorization).ok /\ verifyToken(authorization).userId # userId
Refused == {401, 403, 500}

\* C33: in every state, whatever sync endpoint a foreign request is sent to:
\* it is refused (with 403 when its token verifies for another principal),
\* its answer carries no stored data or version, and the map or table is as
\* before; db-upload refuses it before it reads the table.
C33_OnlyOwnData ==
  \A authorization \in Authorizations, userId \in Users :
    Foreign(authorization, userId) =>
      LET expected == IF Mismatched(authorization, userId)
                        THEN {403} ELSE Refused
          stores == {syncDataStore.upload, syncDataStore.download,
                     syncDataStore.clear}
      IN /\ \A data \in {EmptyData, JSON_stringify(notes)},
               version \in 0..MaxClock :
              LET r == uploadRoute(syncDataStore.upload, authorization,
                                   userId, data, version)
              IN r.store = syncDataStore.upload
                   /\ r.answer.status \in expected
         /\ \A store \in stores :
              /\ downloadRoute(store, authorization, userId).status
                   \in expected
              /\ downloadRoute(store, authorization, userId).data = EmptyData
              /\ versionRoute(store, authorization, userId).status
                   \in expected
              /\ versionRoute(store, authorization, userId).version = 0
              /\ clearRoute(store, authorization, userId).store = store
              /\ clearRoute(store, authorization, userId).answer.status
                   \in expected
         /\ \A data \in 0..1, version \in 0..MaxVersion :
              dbUploadChecks(authorization, userId, data, version)
                \in expected
         /\ dbDownloadRoute(userSyncData, authorization, userId).status
              \in expected
         /\ dbDownloadRoute(userSyncData, authorization, userId).data = 0
         /\ dbVersionRoute(userSyncData, authorization, userId).status
              \in expected
         /\ dbVersionRoute(userSyncData, authorization, userId).version = 0
         /\ dbClearRoute(userSyncData, authorization, userId).table
              = userSyncData
         /\ dbClearRoute(userSyncData, authorization, userId).answer.status
              \in expected
\* A holds data in the map of the upload route and in the table, and the last
\* requests to a map and to the table were refused with 403.
C33_Witness ==
  /\ syncDataStore.upload["A"].exists
  /\ userSyncData["A"].exists
  /\ httpResponse.status = 403
  /\ dbResponse.status = 403

\* ------------------------------------------------------- sync queue claims
\* Whether the item is on this.syncQueue
Queued(id) == \E k \in DOMAIN queue.syncQueue : queue.syncQueue[k] = id

\* C34: no item is executed more than three times, and an item that has left
\* the queue has completed or has failed three times; an item that has failed
\* less often is still on the queue, to be run again.
C34_RetriedUntilThreeFailures ==
  \A id \in ItemIds :
    /\ queue.items[id].executions <= maxRetries
    /\ (queue.items[id].status # "none" /\ ~Queued(id))
         => \/ queue.items[id].status = "completed"
            \/ queue.items[id].retryCount >= maxRetries

\* ---------------------------------------------------- offline queue claims
\* What the local table holds once the operation has been applied to it.
Applied(op, table) ==
  IF op.type = "update"
    THEN table[op.entityId].exists /\ table[op.entityId].title = op.data
    ELSE ~table[op.entityId].exists

\* C35: in every step that takes operations off the offline queue, each of
\* them has been applied to the local table.
C35_AppliedBeforeRemoved ==
  [][Len(autoSync'.offlineQueue) < Len(autoSync.offlineQueue) =>
       \A k \in DOMAIN autoSync.offlineQueue :
         Applied(autoSync.offlineQueue[k], notes')]_vars

\* --------------------------------------------------------- sync flag claims
\* C36: isSyncing is true exactly while a call of uploadToCloud,
\* downloadFromCloud or sync is in flight.
C36_SyncingWhileInFlight == syncStatus.isSyncing <=> InFlight # {}

\* ------------------------------------------------------ registration claims
\* C37: a registerUser call that returns success = false leaves the local
\* user store as it found it.
C37_RegisterAllOrNothing ==
  [][(authCall'.op = "register" /\ ~authResult'.success) =>
       userDb' = userDb]_vars

\* ------------------------------------------------------ engine start claims
\* At most one document and one provider since the last disconnect.
OneDocOneProvider ==
  Cardinality(engine.docs) <= 1 /\ Cardinality(engine.providers) <= 1

\* The initialize calls that return, without throwing, in this step.
Returning ==
  {c \in InitIds : inits'[c].result = "returned" /\ inits'[c] # inits[c]}

\* C38: initialize calls with no disconnect between them create at most one
\* document and one provider, and an initialize that returns without
\* throwing leaves a provider connected to the room of its user.
C38_InitializedOnce ==
  [][/\ OneDocOneProvider'
     /\ \A c \in Returning :
          engine'.wsProvider = DefaultRoom(inits'[c].userId)]_vars

====
